---------------------------- MODULE Spec2Model ----------------------------
(***************************************************************************)
(* tfslite-sdk: the durable local transaction store (native redb backend)  *)
(* and the upload driver (FileUpload: prepare / send / wait) that runs on  *)
(* top of it.                                                              *)
(*                                                                         *)
(*   SpecStore : arbitrary sequences of calls of the store's API           *)
(*   Spec      : one FileUpload driven through prepare, send and wait      *)
(*               against a remote whose answers are inputs                 *)
(*   SpecLive  : Spec with a remote that ends up accepting and committing, *)
(*               and the scheduling the driver's loop guarantees           *)
(***************************************************************************)
EXTENDS Integers, Sequences, FiniteSets, TLC

VARIABLES
    files,      \* FILES_TABLE      : file id -> next_order
    file_txs,   \* FILE_TXS_TABLE   : file id -> set of tx ids (multimap)
    tx_info,    \* TX_INFO_TABLE    : tx id -> (order, submit_id, status)
    tx_bytes,   \* TX_BYTES_TABLE   : tx id -> the transaction that was serialized
    ret,        \* result of the last store call made through the API
    added,      \* history: per file, the transactions of the successful add_tx
                \*          calls since the file last had no file row
    plain,      \* history: per file, only add_tx was called on it since then
    restaged,   \* history: tx ids handed to add_tx while they were staged
    calls,      \* history: number of store API calls made
    since_flush, \* history: per file, the kinds of call that wrote its file row
                \*          since the last flush_txs that removed it
    flushed,    \* history: tx ids that were staged under a file when a flush_txs
                \*          call removed its rows
    clean,      \* history: so far only calls of the LocalStateStore trait were
                \*          made, and none met a backend fault
    idb_files,    \* IndexedDB "files"    : file id -> next_order
    idb_tx_info,  \* IndexedDB "tx_info"  : tx id -> (order, file_id, submit_id, status)
    idb_tx_bytes, \* IndexedDB "tx_bytes" : tx id -> the transaction that was serialized
    idb_ret,      \* result of the last store call on the IndexedDB backend
    pc,         \* driver: position of the FileUpload task
    result,     \* driver: outcome of the last phase call
    prep,       \* driver: locals of prepare_transactions
    snap,       \* driver: what is left of the vector or map a loop iterates over
    scanned,    \* driver: the running wait call has been through its loop body
    uncommited_count, \* driver: wait loop counter
    remote,     \* remote: per tx id, the number of POSTs it accepted
    posted,     \* history: the accepted POSTs of the running or last loop, in order
    polled,     \* history: the poll answer the wait loop handled last
    settled,    \* remote (SpecLive): the remote has reached its final regime
    lost,       \* remote: tx ids whose current submit id it does not know
    stopped,    \* history (SpecResume): the phase call that was last cut off
    progress,   \* driver: whether a wait_status_callback is set and, when one is,
                \*         the locals of wait_transactions its reports are made from
                \*         and the report of the last loop iteration
    lib_call,   \* libtfslite (SpecLib): the function called last and its arguments
    lib_ret,    \* libtfslite (SpecLib): what that call returned
    tasks,      \* tasks (SpecTasks, SpecAddTx): per task, where it is and its locals
    mutex,      \* tasks: the task that owns the guard of the store's Mutex
    writer      \* tasks: the task whose write transaction the backend has open

storeVars == <<files, file_txs, tx_info, tx_bytes>>
histVars == <<added, plain, restaged, calls, since_flush, flushed, clean>>
idbVars == <<idb_files, idb_tx_info, idb_tx_bytes, idb_ret>>
apiVars == <<ret, histVars, idbVars>>
libVars == <<lib_call, lib_ret>>
taskVars == <<tasks, mutex, writer>>
driverVars == <<pc, result, prep, snap, scanned, uncommited_count, remote, posted, polled,
                settled, lost, stopped, progress>>
vars == <<files, file_txs, tx_info, tx_bytes, ret, added, plain, restaged, calls,
          since_flush, flushed, clean, idb_files, idb_tx_info, idb_tx_bytes, idb_ret,
          pc, result, prep, snap, scanned, uncommited_count, remote, posted, polled,
          settled, lost, stopped, progress, lib_call, lib_ret, tasks, mutex, writer>>

---------------------------------------------------------------------------
(* Bounds *)

MaxCalls == 5       \* store API: number of calls in a run
MaxChunks == 1      \* driver (Spec): the file has 0..MaxChunks bytes and is read
                    \*         with a chunk_size of 1..MaxChunks, so it has at most
                    \*         MaxChunks chunks
MaxFileSize == 3    \* driver (SpecPrepare): the file has 0..MaxFileSize bytes
MaxChunkSize == 2   \* driver (SpecPrepare): chunk_size is 1..MaxChunkSize
MaxRePosts == 1     \* driver: POSTs the remote accepts for transactions it already
                    \*         gave a submit id

FileIds == {"f1", "f2"}
DriverSigs == 1..(MaxFileSize + 3)  \* the header signatures prepare builds
TxIds == {1, 2, 3}  \* store API: the header signatures add_tx and update_tx are given
TaskIds == {"a", "b"}   \* the tasks that share the store

---------------------------------------------------------------------------
(* state.rs: TransactionStatus and its two string conversions *)

Statuses == {"Local", "Queued", "Pending", "Committed", "Unknown", "InvalidStatus"}

\* the strings the six statuses are written as
StatusNames == {"LOCAL", "QUEUED", "PENDING", "COMMITTED", "UNKNOWN", "INVALID_STATUS"}

\* mutant: Committed is written with a misspelt name
StatusToString_Misspelt(s) ==
    CASE s = "Local" -> "LOCAL"
      [] s = "Queued" -> "QUEUED"
      [] s = "Pending" -> "PENDING"
      [] s = "Committed" -> "COMMITED"
      [] s = "Unknown" -> "UNKNOWN"
      [] s = "InvalidStatus" -> "INVALID_STATUS"

StatusToString(s) ==
    CASE s = "Local" -> "LOCAL"
      [] s = "Queued" -> "QUEUED"
      [] s = "Pending" -> "PENDING"
      [] s = "Committed" -> "COMMITTED"
      [] s = "Unknown" -> "UNKNOWN"
      [] s = "InvalidStatus" -> "INVALID_STATUS"

StatusFromString(v) ==
    CASE v = "LOCAL" -> "Local"
      [] v = "QUEUED" -> "Queued"
      [] v = "PENDING" -> "Pending"
      [] v = "COMMITTED" -> "Committed"
      [] v = "UNKNOWN" -> "Unknown"
      [] v = "INVALID_STATUS" -> "InvalidStatus"
      [] OTHER -> "InvalidStatus"

---------------------------------------------------------------------------
(* Tables: a table is a function whose domain is the set of its keys *)

None == [none |-> TRUE]
Some(v) == [some |-> v]
IsSome(o) == o # None

Put(table, k, v) == [x \in DOMAIN table \cup {k} |-> IF x = k THEN v ELSE table[x]]
Remove(table, k) == [x \in DOMAIN table \ {k} |-> table[x]]
RemoveAll(table, ks) == [x \in DOMAIN table \ ks |-> table[x]]
EmptyTable == [x \in {} |-> 0]

\* a Transaction: header_signature is its id; the header carries dependencies,
\* the payload the operation and, for FILE_APPEND, the block (the positions
\* in the file of the bytes it holds)
Transaction(sig, deps, op, block) ==
    [header_signature |-> sig, dependencies |-> deps, op |-> op, block |-> block]

Ok(v) == [ok |-> TRUE, value |-> v]
Err(e) == [ok |-> FALSE, err |-> e]

---------------------------------------------------------------------------
(* state_redb.rs: the read operations *)

check_has_file(file_id) ==
    IF file_id \in DOMAIN files THEN Ok("unit") ELSE Err("NoSuchFile")

get_files == Ok(DOMAIN files)

\* the row get_txs builds from a tx_info value: "" decodes to an absent submit_id
TransactionInfo(tx_id) ==
    [order |-> tx_info[tx_id].order,
     tx_id |-> tx_id,
     submit_id |-> IF tx_info[tx_id].submit_id = "" THEN None
                   ELSE Some(tx_info[tx_id].submit_id),
     status |-> StatusFromString(tx_info[tx_id].status)]

\* rows.sort_by(order): a stable sort of the multimap's values, which redb
\* iterates in ascending key order
RECURSIVE SortByOrder(_)
SortByOrder(ids) ==
    IF ids = {} THEN <<>>
    ELSE LET first == CHOOSE a \in ids : \A b \in ids :
                          \/ tx_info[a].order < tx_info[b].order
                          \/ tx_info[a].order = tx_info[b].order /\ a <= b
         IN <<TransactionInfo(first)>> \o SortByOrder(ids \ {first})

\* mutant: the rows are read without the check of the file row
get_txs_SkipsFileCheck(file_id) ==
    IF \E t \in file_txs[file_id] : t \notin DOMAIN tx_info
    THEN Err("panic")
    ELSE Ok(SortByOrder(file_txs[file_id]))

get_txs(file_id) ==
    IF ~check_has_file(file_id).ok THEN Err("NoSuchFile")
    ELSE IF \E t \in file_txs[file_id] : t \notin DOMAIN tx_info
         THEN Err("panic")      \* table_tx_info.get(..)?.unwrap() on None
         ELSE Ok(SortByOrder(file_txs[file_id]))

get_tx_bytes(tx_id) ==
    IF tx_id \in DOMAIN tx_bytes THEN Ok(tx_bytes[tx_id]) ELSE Err("NoSuchTransaction")

---------------------------------------------------------------------------
(* state_redb.rs: the write operations, each one write transaction.        *)
(* Each is a predicate on the tables before and after, and gives the       *)
(* call's result.                                                          *)

\* what can go wrong in one add_tx call:
\*   "none"  - every table operation and the commit succeed
\*   "abort" - begin_write, an open_table, the get or one of the first three
\*             inserts fails (each is left with `?`), the commit fails, or the
\*             call is cut off before the commit: the write transaction is
\*             dropped and nothing it wrote is kept
\*   "bytes" - table_bytes.insert fails: its result is discarded (`let _ =`
\*             with no `?`) and the call goes on to commit
AddTxFaults == {"none", "abort", "bytes"}

\* `table_files.get(file_id)`: the next_order an add_tx call reads
read_next_order(file_id) == IF file_id \in DOMAIN files THEN files[file_id] ELSE 0

\* the inserts of an add_tx call that read next_order, committed
add_tx_write(file_id, transaction, next_order, bytes_written) ==
    LET sig == transaction.header_signature
    IN /\ files' = Put(files, file_id, next_order + 1)
       /\ file_txs' = [file_txs EXCEPT ![file_id] = @ \cup {sig}]
       /\ tx_info' = Put(tx_info, sig,
                         [order |-> next_order, submit_id |-> "",
                          status |-> StatusToString("Local")])
       /\ tx_bytes' = IF bytes_written THEN Put(tx_bytes, sig, transaction) ELSE tx_bytes

\* add_tx with the write transaction committed
add_tx_commit(file_id, transaction, bytes_written) ==
    add_tx_write(file_id, transaction, read_next_order(file_id), bytes_written)

add_tx(file_id, transaction, fault) ==
    IF fault = "abort" THEN UNCHANGED storeVars
    ELSE add_tx_commit(file_id, transaction, fault # "bytes")

add_tx_result(fault) == IF fault = "abort" THEN Err("ImplementationError") ELSE Ok("unit")

update_tx(tx_id, submit_id, status) ==
    IF tx_id \notin DOMAIN tx_info
    THEN UNCHANGED storeVars
    ELSE LET submit_id_db == IF IsSome(submit_id) THEN submit_id.some
                             ELSE tx_info[tx_id].submit_id
             status_db == IF IsSome(status) THEN StatusToString(status.some)
                          ELSE tx_info[tx_id].status
             need_commit == IsSome(submit_id) \/ IsSome(status)
         IN /\ tx_info' = IF need_commit
                          THEN Put(tx_info, tx_id,
                                   [order |-> tx_info[tx_id].order,
                                    submit_id |-> submit_id_db,
                                    status |-> status_db])
                          ELSE tx_info
            /\ UNCHANGED <<files, file_txs, tx_bytes>>

update_tx_result(tx_id) ==
    IF tx_id \notin DOMAIN tx_info THEN Err("NoSuchTransaction") ELSE Ok("unit")

\* mutant: the byte blobs of the file's transactions are left in place
flush_txs_KeepsBytes(file_id) ==
    /\ tx_info' = RemoveAll(tx_info, file_txs[file_id])
    /\ tx_bytes' = tx_bytes
    /\ files' = Remove(files, file_id)
    /\ file_txs' = [file_txs EXCEPT ![file_id] = {}]

flush_txs(file_id) ==
    /\ tx_info' = RemoveAll(tx_info, file_txs[file_id])
    /\ tx_bytes' = RemoveAll(tx_bytes, file_txs[file_id])
    /\ files' = Remove(files, file_id)
    /\ file_txs' = [file_txs EXCEPT ![file_id] = {}]

flush_txs_result(fails) == IF fails THEN Err("ImplementationError") ELSE Ok("unit")

set_has_file(file_id) ==
    /\ files' = Put(files, file_id, 1)
    /\ UNCHANGED <<file_txs, tx_info, tx_bytes>>


---------------------------------------------------------------------------
(* state_indexeddb.rs: the browser backend.  tx_info is one object store    *)
(* keyed by tx_id, with the file_id in the row; add rejects a key that      *)
(* exists, put overwrites.                                                  *)

idb_check_has_file(file_id) ==
    IF file_id \in DOMAIN idb_files THEN Ok("unit") ELSE Err("NoSuchFile")

idb_get_files == Ok(DOMAIN idb_files)

\* From<TxInfo> for TransactionInfo
IdbTransactionInfo(tx_id) ==
    [order |-> idb_tx_info[tx_id].order,
     tx_id |-> tx_id,
     submit_id |-> idb_tx_info[tx_id].submit_id,
     status |-> StatusFromString(idb_tx_info[tx_id].status)]

\* results.sort_by(order) of what the file_id index returns (in key order)
RECURSIVE IdbSortByOrder(_)
IdbSortByOrder(ids) ==
    IF ids = {} THEN <<>>
    ELSE LET first == CHOOSE a \in ids : \A b \in ids :
                          \/ idb_tx_info[a].order < idb_tx_info[b].order
                          \/ idb_tx_info[a].order = idb_tx_info[b].order /\ a <= b
         IN <<IdbTransactionInfo(first)>> \o IdbSortByOrder(ids \ {first})

IdbFileTxs(file_id) == {t \in DOMAIN idb_tx_info : idb_tx_info[t].file_id = file_id}

idb_get_txs(file_id) ==
    IF ~idb_check_has_file(file_id).ok THEN Err("NoSuchFile")
    ELSE Ok(IdbSortByOrder(IdbFileTxs(file_id)))

idb_get_tx_bytes(tx_id) ==
    IF tx_id \in DOMAIN idb_tx_bytes THEN Ok(idb_tx_bytes[tx_id])
    ELSE Err("NoSuchTransaction")

\* add_tx fails with no write made when a backend fault comes ahead of its
\* first write request, and when store_tx_info.add or store_tx_bytes.add
\* meets a key that exists
IdbAddTxFails(transaction, fault) ==
    \/ fault # "none"
    \/ transaction.header_signature \in DOMAIN idb_tx_info
    \/ transaction.header_signature \in DOMAIN idb_tx_bytes

\* `store_files.get(&key)`: the next_order an add_tx call reads
idb_read_next_order(file_id) ==
    IF file_id \in DOMAIN idb_files THEN idb_files[file_id] ELSE 0

\* the add and put requests of an add_tx call that read next_order
idb_add_tx_write(file_id, transaction, next_order) ==
    LET sig == transaction.header_signature
    IN /\ idb_tx_info' = Put(idb_tx_info, sig,
                             [order |-> next_order, file_id |-> file_id,
                              submit_id |-> None,
                              status |-> StatusToString("Local")])
       /\ idb_tx_bytes' = Put(idb_tx_bytes, sig, transaction)
       /\ idb_files' = Put(idb_files, file_id, next_order + 1)

idb_add_tx(file_id, transaction, fault) ==
    IF IdbAddTxFails(transaction, fault)
    THEN UNCHANGED <<idb_files, idb_tx_info, idb_tx_bytes>>
    ELSE idb_add_tx_write(file_id, transaction, idb_read_next_order(file_id))

idb_add_tx_result(file_id, transaction, fault) ==
    IF IdbAddTxFails(transaction, fault) THEN Err("ImplementationError") ELSE Ok("unit")

idb_update_tx(tx_id, submit_id, status) ==
    IF tx_id \notin DOMAIN idb_tx_info
    THEN UNCHANGED <<idb_files, idb_tx_info, idb_tx_bytes>>
    ELSE /\ idb_tx_info' =
                Put(idb_tx_info, tx_id,
                    [order |-> idb_tx_info[tx_id].order,
                     file_id |-> idb_tx_info[tx_id].file_id,
                     submit_id |-> IF IsSome(submit_id) THEN Some(submit_id.some)
                                   ELSE idb_tx_info[tx_id].submit_id,
                     status |-> IF IsSome(status) THEN StatusToString(status.some)
                                ELSE idb_tx_info[tx_id].status])
         /\ UNCHANGED <<idb_files, idb_tx_bytes>>

idb_update_tx_result(tx_id) ==
    IF tx_id \notin DOMAIN idb_tx_info THEN Err("NoSuchTransaction") ELSE Ok("unit")

idb_flush_txs(file_id) ==
    /\ idb_files' = Remove(idb_files, file_id)
    /\ idb_tx_info' = RemoveAll(idb_tx_info, IdbFileTxs(file_id))
    /\ idb_tx_bytes' = RemoveAll(idb_tx_bytes, IdbFileTxs(file_id))

\* files.add: rejected when the file row exists
idb_set_has_file(file_id) ==
    /\ idb_files' = IF file_id \in DOMAIN idb_files THEN idb_files
                    ELSE Put(idb_files, file_id, 1)
    /\ UNCHANGED <<idb_tx_info, idb_tx_bytes>>

idb_set_has_file_result(file_id) ==
    IF file_id \in DOMAIN idb_files THEN Err("ImplementationError") ELSE Ok("unit")

IdbEmpty ==
    /\ idb_files = EmptyTable
    /\ idb_tx_info = EmptyTable
    /\ idb_tx_bytes = EmptyTable
    /\ idb_ret = Ok("unit")

---------------------------------------------------------------------------
(* The driver's state while only the store's API is exercised *)

\* the locals of prepare_transactions before its first step
NewPrep(file_size, chunk_size) ==
    [file_size |-> file_size, chunk_size |-> chunk_size, offset |-> 0, blocks |-> <<>>,
     tx_id_prev |-> 0, next_sig |-> 1, processed_txs |-> 0, reports |-> <<>>,
     succeeded |-> 0]

\* wait_transactions not entered: no committed_txs, no report.  The locals
\* committed_txs, processed_txs and total_txs have no use but the arguments of
\* the wait_status_callback, and are kept only when one is set.
NoProgress ==
    [wait_status_callback |-> FALSE, committed_txs |-> {}, processed_txs |-> 0,
     total_txs |-> 0, report |-> None]

\* set_wait_status_callback(func)
WithCallback == [NoProgress EXCEPT !.wait_status_callback = TRUE]

\* the locals of wait_transactions are dropped
Dropped(locals) == [NoProgress EXCEPT !.wait_status_callback = locals.wait_status_callback]

\* no libtfslite call made, no task started
LibIdle ==
    /\ lib_call = [fn |-> "none"]
    /\ lib_ret = "none"

TasksIdle ==
    /\ tasks = [t \in TaskIds |-> [at |-> "idle", call |-> "none"]]
    /\ mutex = "none"
    /\ writer = "none"

DriverIdle ==
    /\ pc = "new"
    /\ result = [call |-> "none", value |-> "none"]
    /\ prep = NewPrep(0, 1)
    /\ snap = <<>>
    /\ scanned = FALSE
    /\ uncommited_count = 0
    /\ remote = [t \in DriverSigs |-> 0]
    /\ posted = <<>>
    /\ polled = None
    /\ settled = FALSE
    /\ lost = {}
    /\ stopped = "none"
    /\ progress = NoProgress
    /\ LibIdle
    /\ TasksIdle

StoreEmpty ==
    /\ files = EmptyTable
    /\ file_txs = [f \in FileIds |-> {}]
    /\ tx_info = EmptyTable
    /\ tx_bytes = EmptyTable

HistoryEmpty ==
    /\ added = [f \in FileIds |-> <<>>]
    /\ plain = [f \in FileIds |-> TRUE]
    /\ restaged = {}
    /\ calls = 0
    /\ since_flush = [f \in FileIds |-> {}]
    /\ flushed = {}
    /\ clean = TRUE

---------------------------------------------------------------------------
(* SpecStore: the LocalStateStore API called with arbitrary arguments *)

ApiSubmitIds == {None, Some(""), Some("s1")}
ApiStatuses == {None, Some("Committed")}

Staged(tx_id) == tx_id \in DOMAIN tx_info \/ \E f \in FileIds : tx_id \in file_txs[f]

SAddTx(file_id, sig, fault) ==
    /\ calls < MaxCalls
    /\ calls' = calls + 1
    /\ clean' = (clean /\ fault = "none")
    /\ idb_add_tx(file_id, Transaction(sig, <<>>, "API", <<>>), fault)
    /\ idb_ret' = idb_add_tx_result(file_id, Transaction(sig, <<>>, "API", <<>>), fault)
    /\ add_tx(file_id, Transaction(sig, <<>>, "API", <<>>), fault)
    /\ ret' = add_tx_result(fault)
    /\ added' = IF fault = "abort" \/ ~plain[file_id] THEN added
                ELSE [added EXCEPT ![file_id] = Append(@, sig)]
    /\ restaged' = IF fault # "abort" /\ Staged(sig) THEN restaged \cup {sig} ELSE restaged
    /\ since_flush' = IF fault = "abort" THEN since_flush
                      ELSE [since_flush EXCEPT ![file_id] = @ \cup {"add_tx"}]
    /\ UNCHANGED <<plain, flushed, driverVars, libVars, taskVars>>

SUpdateTx(tx_id, submit_id, status) ==
    /\ calls < MaxCalls
    /\ calls' = calls + 1
    /\ update_tx(tx_id, submit_id, status)
    /\ ret' = update_tx_result(tx_id)
    /\ idb_update_tx(tx_id, submit_id, status)
    /\ idb_ret' = idb_update_tx_result(tx_id)
    /\ plain' = [f \in FileIds |->
                    IF tx_id \in file_txs[f] /\ tx_info' # tx_info THEN FALSE ELSE plain[f]]
    /\ added' = [f \in FileIds |-> IF plain'[f] THEN added[f] ELSE <<>>]
    /\ UNCHANGED <<restaged, since_flush, flushed, clean, driverVars, libVars, taskVars>>

\* fails: an operation of the call (each is left with `?`) or its commit meets
\* a backend error, and nothing is written
SFlushTxs(file_id, fails) ==
    /\ calls < MaxCalls
    /\ calls' = calls + 1
    /\ clean' = (clean /\ ~fails)
    /\ ret' = flush_txs_result(fails)
    /\ idb_ret' = flush_txs_result(fails)
    /\ IF fails
       THEN UNCHANGED <<storeVars, idb_files, idb_tx_info, idb_tx_bytes, added, plain,
                        since_flush, flushed>>
       ELSE /\ flush_txs(file_id)
            /\ idb_flush_txs(file_id)
            /\ added' = [added EXCEPT ![file_id] = <<>>]
            /\ plain' = [plain EXCEPT ![file_id] = TRUE]
            /\ flushed' = flushed \cup file_txs[file_id]
            /\ since_flush' = [since_flush EXCEPT ![file_id] = {}]
    /\ UNCHANGED <<restaged, driverVars, libVars, taskVars>>

SSetHasFile(file_id) ==
    /\ calls < MaxCalls
    /\ calls' = calls + 1
    /\ set_has_file(file_id)
    /\ ret' = Ok("unit")
    /\ idb_set_has_file(file_id)
    /\ idb_ret' = idb_set_has_file_result(file_id)
    /\ clean' = FALSE
    /\ plain' = [plain EXCEPT ![file_id] = FALSE]
    /\ added' = [added EXCEPT ![file_id] = <<>>]
    /\ since_flush' = [since_flush EXCEPT ![file_id] = @ \cup {"set_has_file"}]
    /\ UNCHANGED <<restaged, flushed, driverVars, libVars, taskVars>>

InitStore ==
    /\ StoreEmpty
    /\ HistoryEmpty
    /\ ret = Ok("unit")
    /\ IdbEmpty
    /\ DriverIdle

NextStore ==
    \/ \E f \in FileIds, t \in TxIds, fault \in AddTxFaults : SAddTx(f, t, fault)
    \/ \E t \in TxIds, s \in ApiSubmitIds, st \in ApiStatuses : SUpdateTx(t, s, st)
    \/ \E f \in FileIds, fails \in BOOLEAN : SFlushTxs(f, fails)
    \/ \E f \in FileIds : SSetHasFile(f)

SpecStore == InitStore /\ [][NextStore]_vars

---------------------------------------------------------------------------
(* client.rs: FileUpload.  One upload of the file uuid on an empty store.  *)
(* Every POST and every store call of a loop body is one step.             *)

uuid == "f1"

\* the handle the remote returns for the k-th accepted POST of a transaction:
\* a non-empty string that no other POST was answered with
SubmitId(tx_id, k) == ToString(tx_id) \o "/" \o ToString(k)

\* status strings a poll may answer for a submit id; "absent" stands for a
\* response map without that submit id
PollAnswers == {"QUEUED", "PENDING", "COMMITTED", "UNKNOWN",
                "INVALID_STATUS", "REJECTED", "absent"}

Returned(call, value) == [call |-> call, value |-> value]

\* a phase call returns (Ok or Err) or the task panics; its locals are dropped,
\* and snap and posted keep what was left and what was posted when it ended
Return(call, value) ==
    /\ pc' = IF value = "panic" THEN "panicked" ELSE "idle"
    /\ result' = Returned(call, value)
    /\ scanned' = FALSE
    /\ uncommited_count' = 0
    /\ polled' = None
    /\ UNCHANGED <<snap, posted>>

\* a phase call starts or goes on
Running(call, at) ==
    /\ pc' = at
    /\ result' = Returned(call, "running")

Rows(file_id) == get_txs(file_id).value

StoredRow(tx_id) == TransactionInfo(tx_id)

StatusOf(tx_id) == TransactionInfo(tx_id).status

(* prepare_transactions *)

\* total_txs
TotalTxs(file_size, chunk_size) ==
    (file_size \div chunk_size) + (IF file_size % chunk_size > 0 THEN 1 ELSE 0) + 3

\* the bytes a read returns: the positions from + 1 .. from + n of the file
Bytes(from, n) == [i \in 1..n |-> from + i]

Min(a, b) == IF a <= b THEN a ELSE b

\* TransactionBuilder::build: a new header signature for every transaction
BuildTx(deps, op, block) == Transaction(prep.next_sig, deps, op, block)

\* one `let _ = store.add_tx(&self.uuid, &tx).await; tx_id_prev = tx id`,
\* followed, when processed > 0, by `processed_txs += processed` and
\* `call_prepare_status_callback(processed_txs, total_txs)`.
\* offset and blocks record what the chunk stream has yielded, reports the
\* first argument of each callback call, succeeded the number of add_tx calls
\* that returned Ok.
StageTx(tx, fault, processed) ==
    /\ add_tx(uuid, tx, fault)
    /\ prep' = [prep EXCEPT !.tx_id_prev = tx.header_signature,
                            !.next_sig = @ + 1,
                            !.offset = @ + Len(tx.block),
                            !.blocks = IF tx.op = "FILE_APPEND" THEN Append(@, tx.block)
                                       ELSE @,
                            !.processed_txs = @ + processed,
                            !.reports = IF processed > 0
                                        THEN Append(@, prep.processed_txs + processed)
                                        ELSE @,
                            !.succeeded = IF add_tx_result(fault).ok THEN @ + 1 ELSE @]

PrepareDeposit(fault) ==
    /\ pc = "new"
    /\ StageTx(BuildTx(<<>>, "ACCOUNT_DEPOSIT", <<>>), fault, 0)
    /\ Running("prepare", "prepare_create")
    /\ UNCHANGED <<snap, scanned, uncommited_count, remote, posted, polled,
                   settled, lost, apiVars, stopped,
                   libVars, taskVars, progress>>

PrepareCreate(fault) ==
    /\ pc = "prepare_create"
    /\ StageTx(BuildTx(<<prep.tx_id_prev>>, "FILE_CREATE", <<>>), fault, 2)
    /\ Running("prepare", "prepare_append")
    /\ UNCHANGED <<snap, scanned, uncommited_count, remote, posted, polled,
                   settled, lost, apiVars, stopped,
                   libVars, taskVars, progress>>

\* one iteration of `while let Some(data) = stream.next().await`: f.read
\* returned Ok(bytes_read) with 1 <= bytes_read <= the buffer's length, and
\* the stream yielded these bytes as one chunk
PrepareAppend(fault, bytes_read) ==
    /\ pc = "prepare_append"
    /\ bytes_read \in 1..Min(prep.chunk_size, prep.file_size - prep.offset)
    /\ StageTx(BuildTx(<<prep.tx_id_prev>>, "FILE_APPEND",
                       Bytes(prep.offset, bytes_read)), fault, 1)
    /\ Running("prepare", "prepare_append")
    /\ UNCHANGED <<snap, scanned, uncommited_count, remote, posted, polled,
                   settled, lost, apiVars, stopped,
                   libVars, taskVars, progress>>

\* the stream ends, at the end of the file (f.read returned Ok(0)) or, with
\* read_fails, at a read that returned an error while bytes were left
PrepareSeal(fault, read_fails) ==
    /\ pc = "prepare_append"
    /\ IF read_fails THEN prep.offset < prep.file_size ELSE prep.offset = prep.file_size
    /\ StageTx(BuildTx(<<prep.tx_id_prev>>, "FILE_SEAL", <<>>), fault, 1)
    /\ Return("prepare", "Ok")
    /\ UNCHANGED <<remote, settled, lost, apiVars, stopped,
                   libVars, taskVars, progress>>

(* submit_transaction: the POST of a staged transaction *)

NewSubmitId(tx_id) == SubmitId(tx_id, remote[tx_id] + 1)

\* POSTs the remote accepted for transactions it had already given a submit id
RePosts == Cardinality({p \in DriverSigs \X (2..(MaxRePosts + 1)) : remote[p[1]] >= p[2]})

CanAccept(tx_id) == remote[tx_id] = 0 \/ RePosts < MaxRePosts

\* mutant: the submit id is stored together with a status
SubmitAndStore_SetsQueued(tx_info_) ==
    LET tx_id == tx_info_.tx_id
    IN /\ CanAccept(tx_id)
       /\ remote' = [remote EXCEPT ![tx_id] = @ + 1]
       /\ update_tx(tx_id, Some(NewSubmitId(tx_id)), Some("Queued"))
       /\ posted' = Append(posted, [tx_id |-> tx_id, submit_id |-> NewSubmitId(tx_id),
                                    status |-> tx_info_.status])
       /\ lost' = lost \ {tx_id}

\* the remote accepts the POST and answers with a new submit id, which
\* update_tx(tx_id, Some(submit_id), None) stores
SubmitAndStore(tx_info_) ==
    LET tx_id == tx_info_.tx_id
    IN /\ CanAccept(tx_id)
       /\ remote' = [remote EXCEPT ![tx_id] = @ + 1]
       /\ update_tx(tx_id, Some(NewSubmitId(tx_id)), None)
       /\ posted' = Append(posted, [tx_id |-> tx_id, submit_id |-> NewSubmitId(tx_id),
                                    status |-> tx_info_.status])
       /\ lost' = lost \ {tx_id}

(* send_transactions *)

StartSend ==
    /\ pc = "idle"
    /\ IF get_txs(uuid).ok
       THEN /\ Running("send", "send_loop")
            /\ snap' = Rows(uuid)
            /\ posted' = <<>>
            /\ UNCHANGED <<scanned, uncommited_count, polled>>
       ELSE Return("send", "panic")
    /\ UNCHANGED <<storeVars, prep, remote, settled, lost, apiVars, stopped,
                   libVars, taskVars, progress>>

\* mutant: a failed submit is skipped and the loop goes on with the next row
SendSubmit_SkipsFailure(accepted) ==
    /\ pc = "send_loop"
    /\ snap # <<>>
    /\ LET tx_id == Head(snap).tx_id
       IN IF ~get_tx_bytes(tx_id).ok
          THEN /\ Return("send", "panic")
               /\ UNCHANGED <<storeVars, remote, lost>>
          ELSE IF ~accepted
          THEN /\ snap' = Tail(snap)
               /\ UNCHANGED <<storeVars, remote, lost, pc, result, scanned, uncommited_count,
                              posted, polled>>
          ELSE /\ SubmitAndStore(Head(snap))
               /\ snap' = Tail(snap)
               /\ UNCHANGED <<pc, result, scanned, uncommited_count, polled>>
    /\ UNCHANGED <<prep, settled, apiVars, stopped,
                   libVars, taskVars, progress>>

\* one iteration of `for tx_info in tx_infos`
SendSubmit(accepted) ==
    /\ pc = "send_loop"
    /\ snap # <<>>
    /\ LET tx_id == Head(snap).tx_id
       IN IF ~get_tx_bytes(tx_id).ok
          THEN /\ Return("send", "panic")
               /\ UNCHANGED <<storeVars, remote, lost>>
          ELSE IF ~accepted
          THEN /\ Return("send", "Err")
               /\ UNCHANGED <<storeVars, remote, lost>>
          ELSE /\ SubmitAndStore(Head(snap))
               /\ snap' = Tail(snap)
               /\ UNCHANGED <<pc, result, scanned, uncommited_count, polled>>
    /\ UNCHANGED <<prep, settled, apiVars, stopped,
                   libVars, taskVars, progress>>

SendDone ==
    /\ pc = "send_loop"
    /\ snap = <<>>
    /\ Return("send", "Ok")
    /\ UNCHANGED <<storeVars, prep, remote, settled, lost, apiVars, stopped,
                   libVars, taskVars, progress>>

(* update_tx_statuses: the bulk poll and the stores of what it answered *)

\* the remote: UNKNOWN says it does not know the submit id (any longer), any
\* other status that it knows it
Forgets(lost_, tx_id, answer) ==
    IF answer = "UNKNOWN" THEN lost_ \cup {tx_id}
    ELSE IF answer = "absent" THEN lost_
    ELSE lost_ \ {tx_id}

\* mutant: the polled status is stored as it came
Normalize_Identity(status) == status

\* `if status == Unknown { status = Local }`
Normalize(status) == IF status = "Unknown" THEN "Local" ELSE status

\* tx_map: the (submit_id, tx_id) pairs of the rows, submit_id unwrapped
TxMap(rows) == [i \in 1..Len(rows) |->
                   [tx_id |-> rows[i].tx_id, submit_id |-> rows[i].submit_id.some]]

\* call_wait_status_callback(processed_txs, total_txs)
Report(locals) ==
    [locals EXCEPT !.report = Some(<<locals.processed_txs, locals.total_txs>>)]

\* `if tx_info.status == Committed { committed_txs.insert(tx_id, ()) }`
Counted(row) ==
    IF progress.wait_status_callback /\ row.status = "Committed"
    THEN [progress EXCEPT !.committed_txs = @ \cup {row.tx_id}]
    ELSE progress

\* mutant: a report is made in every iteration
Reported_Always(locals) ==
    IF ~locals.wait_status_callback THEN locals
    ELSE Report([locals EXCEPT !.processed_txs = Cardinality(locals.committed_txs)])

\* `if committed_txs.len() > processed_txs { processed_txs = ..; report }`
Reported(locals) ==
    IF ~locals.wait_status_callback THEN locals
    ELSE IF Cardinality(locals.committed_txs) > locals.processed_txs
    THEN Report([locals EXCEPT !.processed_txs = Cardinality(locals.committed_txs)])
    ELSE [locals EXCEPT !.report = None]

\* the locals are dropped when the call returns or panics
KeptWhileRunning ==
    progress' = IF pc' \in {"idle", "panicked"} THEN Dropped(progress) ELSE progress

StartWait ==
    /\ pc = "idle"
    /\ IF get_txs(uuid).ok
       THEN /\ Running("wait", "wait_poll")
            /\ snap' = <<>>
            /\ posted' = <<>>
            /\ progress' = IF progress.wait_status_callback
                           THEN Report([WithCallback EXCEPT !.total_txs = Len(Rows(uuid))])
                           ELSE progress
            /\ UNCHANGED <<scanned, uncommited_count, polled>>
       ELSE Return("wait", "panic") /\ UNCHANGED progress
    /\ UNCHANGED <<storeVars, prep, remote, settled, lost, apiVars, stopped,
                   libVars, taskVars>>

\* mutant: a failed poll request flushes the file before the error is returned
WaitPoll_FlushesOnError(answered) ==
    /\ pc = "wait_poll"
    /\ IF ~get_txs(uuid).ok
          \/ \E i \in 1..Len(Rows(uuid)) : Rows(uuid)[i].submit_id = None
       THEN Return("wait", "panic") /\ UNCHANGED storeVars
       ELSE IF ~answered
       THEN Return("wait", "Err") /\ flush_txs(uuid)
       ELSE /\ Running("wait", "wait_update")
            /\ snap' = TxMap(Rows(uuid))
            /\ posted' = <<>>
            /\ UNCHANGED <<storeVars, scanned, uncommited_count, polled>>
    /\ KeptWhileRunning
    /\ UNCHANGED <<prep, remote, settled, lost, apiVars, stopped,
                   libVars, taskVars>>

\* get_txs, the submit_id unwraps and the POST to /transaction/status/multiple
WaitPoll(answered) ==
    /\ pc = "wait_poll"
    /\ IF ~get_txs(uuid).ok
          \/ \E i \in 1..Len(Rows(uuid)) : Rows(uuid)[i].submit_id = None
       THEN Return("wait", "panic")
       ELSE IF ~answered
       THEN Return("wait", "Err")
       ELSE /\ Running("wait", "wait_update")
            /\ snap' = TxMap(Rows(uuid))
            /\ posted' = <<>>
            /\ UNCHANGED <<scanned, uncommited_count, polled>>
    /\ KeptWhileRunning
    /\ UNCHANGED <<storeVars, prep, remote, settled, lost, apiVars, stopped,
                   libVars, taskVars>>

\* one iteration of `for (submit_id, status) in tx_statuses`
WaitUpdate(answer) ==
    /\ pc = "wait_update"
    /\ snap # <<>>
    /\ LET asked == Head(snap)
       IN /\ polled' = [tx_id |-> asked.tx_id, submit_id |-> asked.submit_id,
                        answer |-> answer]
          /\ IF answer = "absent"
             THEN UNCHANGED storeVars
             ELSE update_tx(asked.tx_id, Some(asked.submit_id),
                            Some(Normalize(StatusFromString(answer))))
          /\ lost' = Forgets(lost, asked.tx_id, answer)
    /\ snap' = Tail(snap)
    /\ UNCHANGED <<pc, result, prep, scanned, uncommited_count, remote, posted,
                   settled, apiVars, stopped,
                   libVars, taskVars, progress>>

(* wait_transactions: the loop body after update_tx_statuses *)

WaitReload ==
    /\ pc = "wait_update"
    /\ snap = <<>>
    /\ IF get_txs(uuid).ok
       THEN /\ Running("wait", "wait_scan")
            /\ snap' = Rows(uuid)
            /\ uncommited_count' = 0
            /\ polled' = None
            /\ UNCHANGED <<scanned, posted>>
       ELSE Return("wait", "panic")
    /\ KeptWhileRunning
    /\ UNCHANGED <<storeVars, prep, remote, settled, lost, apiVars, stopped,
                   libVars, taskVars>>

\* mutant: Local rows are counted but not resubmitted
WaitScan_NoResubmit(accepted) ==
    /\ pc = "wait_scan"
    /\ snap # <<>>
    /\ accepted
    /\ snap' = Tail(snap)
    /\ uncommited_count' = IF Head(snap).status = "Committed" THEN uncommited_count
                           ELSE uncommited_count + 1
    /\ progress' = Counted(Head(snap))
    /\ UNCHANGED <<storeVars, pc, result, scanned, remote, posted, polled, lost>>
    /\ UNCHANGED <<prep, settled, apiVars, stopped,
                   libVars, taskVars>>

\* mutant: every row that is not Committed is resubmitted
WaitScan_ResubmitsUncommitted(accepted) ==
    /\ pc = "wait_scan"
    /\ snap # <<>>
    /\ LET row == Head(snap)
           counted == IF row.status = "Committed" THEN uncommited_count
                      ELSE uncommited_count + 1
       IN IF row.status = "Committed"
          THEN /\ accepted
               /\ snap' = Tail(snap)
               /\ uncommited_count' = counted
               /\ progress' = Counted(row)
               /\ UNCHANGED <<storeVars, pc, result, scanned, remote, posted, polled,
                              lost>>
          ELSE IF ~get_tx_bytes(row.tx_id).ok
          THEN /\ Return("wait", "panic")
               /\ progress' = Dropped(progress)
               /\ UNCHANGED <<storeVars, remote, lost>>
          ELSE IF ~accepted
          THEN /\ Return("wait", "Err")
               /\ progress' = Dropped(progress)
               /\ UNCHANGED <<storeVars, remote, lost>>
          ELSE /\ SubmitAndStore(row)
               /\ snap' = Tail(snap)
               /\ uncommited_count' = counted
               /\ UNCHANGED <<pc, result, scanned, polled, progress>>
    /\ UNCHANGED <<prep, settled, apiVars, stopped,
                   libVars, taskVars>>

\* one iteration of `for tx_info in tx_infos`: count, and resubmit a Local row
WaitScan(accepted) ==
    /\ pc = "wait_scan"
    /\ snap # <<>>
    /\ LET row == Head(snap)
           counted == IF row.status = "Committed" THEN uncommited_count
                      ELSE uncommited_count + 1
       IN IF row.status # "Local"
          THEN /\ accepted
               /\ snap' = Tail(snap)
               /\ uncommited_count' = counted
               /\ progress' = Counted(row)
               /\ UNCHANGED <<storeVars, pc, result, scanned, remote, posted, polled,
                              lost>>
          ELSE IF ~get_tx_bytes(row.tx_id).ok
          THEN /\ Return("wait", "panic")
               /\ progress' = Dropped(progress)
               /\ UNCHANGED <<storeVars, remote, lost>>
          ELSE IF ~accepted
          THEN /\ Return("wait", "Err")
               /\ progress' = Dropped(progress)
               /\ UNCHANGED <<storeVars, remote, lost>>
          ELSE /\ SubmitAndStore(row)
               /\ snap' = Tail(snap)
               /\ uncommited_count' = counted
               /\ UNCHANGED <<pc, result, scanned, polled, progress>>
    /\ UNCHANGED <<prep, settled, apiVars, stopped,
                   libVars, taskVars>>

\* mutant: the loop is left while one row is still uncommitted
WaitCheck_BreaksEarly ==
    /\ pc = "wait_scan"
    /\ snap = <<>>
    /\ progress' = Reported(progress)
    /\ Running("wait", IF uncommited_count <= 1 THEN "wait_flush" ELSE "wait_poll")
    /\ scanned' = TRUE
    /\ UNCHANGED <<storeVars, prep, snap, uncommited_count, remote, posted, polled,
                   settled, lost, apiVars, stopped,
                   libVars, taskVars>>

\* `if uncommited_count == 0 { break }`, else sleep and loop
WaitCheck ==
    /\ pc = "wait_scan"
    /\ snap = <<>>
    /\ progress' = Reported(progress)
    /\ Running("wait", IF uncommited_count = 0 THEN "wait_flush" ELSE "wait_poll")
    /\ scanned' = TRUE
    /\ UNCHANGED <<storeVars, prep, snap, uncommited_count, remote, posted, polled,
                   settled, lost, apiVars, stopped,
                   libVars, taskVars>>

\* `let _ = store.flush_txs(&self.uuid).await; Ok(())`
WaitFlush ==
    /\ pc = "wait_flush"
    /\ flush_txs(uuid)
    /\ Return("wait", "Ok")
    /\ KeptWhileRunning
    /\ UNCHANGED <<prep, remote, settled, lost, apiVars, stopped,
                   libVars, taskVars>>

---------------------------------------------------------------------------
(* Spec: one upload; the file's size, the store's failures in prepare, and  *)
(* the remote's answers are inputs                                          *)

Init ==
    /\ StoreEmpty
    /\ HistoryEmpty
    /\ ret = Ok("unit")
    /\ IdbEmpty
    /\ pc = "new"
    /\ result = Returned("none", "none")
    /\ prep \in {NewPrep(file_size, chunk_size) :
                      file_size \in 0..MaxChunks, chunk_size \in 1..MaxChunks}
    /\ snap = <<>>
    /\ scanned = FALSE
    /\ uncommited_count = 0
    /\ remote = [t \in DriverSigs |-> 0]
    /\ posted = <<>>
    /\ polled = None
    /\ settled = FALSE
    /\ lost = {}
    /\ stopped = "none"
    /\ progress = NoProgress
    /\ LibIdle
    /\ TasksIdle

Prepare ==
    \E fault \in AddTxFaults :
        \/ PrepareDeposit(fault)
        \/ PrepareCreate(fault)
        \/ \E bytes_read \in 1..MaxChunkSize : PrepareAppend(fault, bytes_read)
        \/ \E read_fails \in BOOLEAN : PrepareSeal(fault, read_fails)

Send ==
    \/ StartSend
    \/ \E accepted \in BOOLEAN : SendSubmit(accepted)
    \/ SendDone

Wait ==
    \/ StartWait
    \/ \E answered \in BOOLEAN : WaitPoll(answered)
    \/ \E answer \in PollAnswers : WaitUpdate(answer)
    \/ WaitReload
    \/ \E accepted \in BOOLEAN : WaitScan(accepted)
    \/ WaitCheck
    \/ WaitFlush

Next == Prepare \/ Send \/ Wait

Spec == Init /\ [][Next]_vars

---------------------------------------------------------------------------
(* SpecProgress: Spec for a FileUpload on which set_wait_status_callback    *)
(* was called, so that wait_transactions reports its progress               *)

InitProgress ==
    /\ StoreEmpty
    /\ HistoryEmpty
    /\ ret = Ok("unit")
    /\ IdbEmpty
    /\ pc = "new"
    /\ result = Returned("none", "none")
    /\ prep \in {NewPrep(file_size, chunk_size) :
                      file_size \in 0..MaxChunks, chunk_size \in 1..MaxChunks}
    /\ snap = <<>>
    /\ scanned = FALSE
    /\ uncommited_count = 0
    /\ remote = [t \in DriverSigs |-> 0]
    /\ posted = <<>>
    /\ polled = None
    /\ settled = FALSE
    /\ lost = {}
    /\ stopped = "none"
    /\ progress = WithCallback
    /\ LibIdle
    /\ TasksIdle

SpecProgress == InitProgress /\ [][Next]_vars

---------------------------------------------------------------------------
(* SpecPrepare: prepare_transactions alone, on files of up to MaxFileSize    *)
(* bytes read with a chunk_size of up to MaxChunkSize; the sizes of the      *)
(* reads, a read error and the store's failures are inputs                   *)

InitPrepare ==
    /\ StoreEmpty
    /\ HistoryEmpty
    /\ ret = Ok("unit")
    /\ IdbEmpty
    /\ pc = "new"
    /\ result = Returned("none", "none")
    /\ prep \in {NewPrep(file_size, chunk_size) :
                      file_size \in 0..MaxFileSize, chunk_size \in 1..MaxChunkSize}
    /\ snap = <<>>
    /\ scanned = FALSE
    /\ uncommited_count = 0
    /\ remote = [t \in DriverSigs |-> 0]
    /\ posted = <<>>
    /\ polled = None
    /\ settled = FALSE
    /\ lost = {}
    /\ stopped = "none"
    /\ progress = NoProgress
    /\ LibIdle
    /\ TasksIdle

SpecPrepare == InitPrepare /\ [][Prepare]_vars

---------------------------------------------------------------------------
(* SpecResume: Spec where the FileUpload task may be dropped at any of its  *)
(* suspension points (a crash, or the future cancelled); the caller then    *)
(* enters send_transactions or wait_transactions on the same file id        *)

\* the phase call the task is in
CallAt(at) ==
    IF at \in {"new", "prepare_create", "prepare_append"} THEN "prepare"
    ELSE IF at = "send_loop" THEN "send"
    ELSE "wait"

\* the task is dropped at an await; its locals are gone, the store and the
\* remote are as the last completed store call and POST left them
Stop ==
    /\ pc \notin {"idle", "panicked"}
    /\ pc' = "idle"
    /\ result' = Returned(CallAt(pc), "stopped")
    /\ stopped' = CallAt(pc)
    /\ snap' = <<>>
    /\ posted' = <<>>
    /\ scanned' = FALSE
    /\ uncommited_count' = 0
    /\ polled' = None
    /\ progress' = Dropped(progress)
    /\ UNCHANGED <<storeVars, prep, remote, settled, lost, apiVars, libVars, taskVars>>

NextResume == Next \/ Stop

SpecResume == Init /\ [][NextResume]_vars

---------------------------------------------------------------------------
(* SpecLive: prepare, then send, then wait, with no transport error, against *)
(* a remote that accepts every POST it is sent and that, from some point    *)
(* on, answers COMMITTED for every submit id it knows (and UNKNOWN for one  *)
(* it has forgotten).  Before that point its answers are arbitrary, as long *)
(* as the re-POSTs they make necessary stay within MaxRePosts.  The store's  *)
(* calls succeed.                                                           *)

\* the rows the poll has been through and that the next scan will resubmit
ToResubmit ==
    {t \in file_txs[uuid] :
        StatusOf(t) = "Local" /\ \A i \in 1..Len(snap) : snap[i].tx_id # t}

\* the remote reaches its final regime; a poll response is made up at one
\* time, so the change shows from one poll request on
Settle ==
    /\ ~settled
    /\ pc = "wait_poll"
    /\ settled' = TRUE
    /\ UNCHANGED <<storeVars, apiVars, libVars, taskVars, stopped, pc, result, prep, snap, scanned,
                   uncommited_count, remote, posted, polled, lost, progress>>

LivePrepare ==
    \/ PrepareDeposit("none")
    \/ PrepareCreate("none")
    \/ \E bytes_read \in 1..MaxChunkSize : PrepareAppend("none", bytes_read)
    \/ PrepareSeal("none", FALSE)

LiveStartSend == result = Returned("prepare", "Ok") /\ StartSend

LiveSendSubmit == SendSubmit(TRUE)

LiveStartWait == result = Returned("send", "Ok") /\ StartWait

LiveWaitPoll == WaitPoll(TRUE)

\* the answers of the remote before it settles: not yet committed, committed,
\* forgotten, a status the driver does not handle, and left out of the response
LiveAnswers == {"QUEUED", "COMMITTED", "UNKNOWN", "INVALID_STATUS", "absent"}

LiveWaitUpdate(answer) ==
    /\ pc = "wait_update"
    /\ snap # <<>>
    /\ settled => answer = IF Head(snap).tx_id \in lost THEN "UNKNOWN" ELSE "COMMITTED"
    /\ WaitUpdate(answer)
    /\ ~settled => RePosts + Cardinality(ToResubmit') <= MaxRePosts

LiveWaitScan == WaitScan(TRUE)

\* the steps of the FileUpload task
Task ==
    \/ LivePrepare
    \/ LiveStartSend
    \/ LiveSendSubmit
    \/ SendDone
    \/ LiveStartWait
    \/ LiveWaitPoll
    \/ \E answer \in LiveAnswers : LiveWaitUpdate(answer)
    \/ WaitReload
    \/ LiveWaitScan
    \/ WaitCheck
    \/ WaitFlush

NextLive == Task \/ Settle

\* the task runs on (its only pause is the 500 ms sleep of the wait loop) and
\* the caller goes from one phase to the next; the remote settles before one
\* of the polls
SpecLive == Init /\ [][NextLive]_vars /\ WF_vars(Task) /\ SF_vars(Settle)

---------------------------------------------------------------------------
(* libtfslite client/payload.rs: PayloadBuilder *)

PayloadOperations ==
    {"FILE_CREATE", "FILE_APPEND", "FILE_SEAL", "FILE_DESTROY", "ACCOUNT_DEPOSIT",
     "ACCOUNT_TRANSFER", "PERMISSION_SET", "PERMISSION_CLEAR", "TIMESTAMP_SET"}

\* the optional fields of a PayloadBuilder; the payload has the same fields
PayloadFields ==
    {"uuid", "mode", "block", "filename", "address", "amount", "permission",
     "permission_public_key", "timestamp_create", "timestamp_append", "timestamp_seal"}

\* digests: the digest of a byte string stands for that byte string alone
Sha224(data) == [sha224_of |-> data]
Sha512(data) == [sha512_of |-> data]

\* PayloadBuilder::new(operation): every field None
PayloadBuilder_new(operation) ==
    [f \in PayloadFields \cup {"operation"} |->
        IF f = "operation" THEN operation ELSE None]

\* with_uuid, with_mode, with_filename, with_address, with_amount, ...
PayloadBuilder_with(builder, field, value) == [builder EXCEPT ![field] = Some(value)]

\* with_block(data): the block carries the data and its SHA-224
PayloadBuilder_with_block(builder, data) ==
    [builder EXCEPT !["block"] = Some([sha224 |-> Sha224(data), data |-> data])]

\* the errors of the builders
MissingField(name) == [error |-> "MissingField", field |-> name]
SigningError == [error |-> "SigningError"]

\* Payload::new() with the operation set, then the fields the arm of the
\* match sets
PayloadWith(builder, fields) ==
    [f \in PayloadFields \cup {"operation"} |->
        IF f = "operation" \/ f \in fields THEN builder[f] ELSE None]

\* mutant: TIMESTAMP_SET asks for timestamp_create only
TimestampsUnset_CreateOnly(builder) == builder["timestamp_create"] = None

\* `timestamp_create.is_none() && timestamp_append.is_none() && timestamp_seal.is_none()`
TimestampsUnset(builder) ==
    /\ builder["timestamp_create"] = None
    /\ builder["timestamp_append"] = None
    /\ builder["timestamp_seal"] = None

\* the fields an arm takes with ok_or_else(..)?, in the order it takes them
RequiredFields(operation) ==
    CASE operation = "FILE_CREATE" -> <<"uuid", "mode">>
      [] operation = "FILE_APPEND" -> <<"uuid", "block">>
      [] operation \in {"FILE_SEAL", "FILE_DESTROY"} -> <<"uuid">>
      [] operation \in {"ACCOUNT_DEPOSIT", "ACCOUNT_TRANSFER"} -> <<"address", "amount">>
      [] operation = "PERMISSION_SET" -> <<"permission", "permission_public_key">>
      [] operation = "PERMISSION_CLEAR" -> <<"permission">>
      [] operation = "TIMESTAMP_SET" -> <<"uuid">>

\* the fields an arm sets when they were supplied (`if let Some(..)`)
OptionalFields(operation) ==
    CASE operation = "FILE_CREATE" -> {"filename"}
      [] operation = "TIMESTAMP_SET" ->
             {"timestamp_create", "timestamp_append", "timestamp_seal"}
      [] OTHER -> {}

Range(seq) == {seq[i] : i \in 1..Len(seq)}

PayloadBuilder_build(builder) ==
    LET required == RequiredFields(builder["operation"])
        unset == {i \in 1..Len(required) : builder[required[i]] = None}
    IN IF unset # {}
       THEN Err(MissingField(required[CHOOSE i \in unset : \A j \in unset : i <= j]))
       ELSE IF builder["operation"] = "TIMESTAMP_SET" /\ TimestampsUnset(builder)
       THEN Err(MissingField("timestamp"))
       ELSE Ok(PayloadWith(builder,
                           Range(required) \cup OptionalFields(builder["operation"])))

---------------------------------------------------------------------------
(* libtfslite client/keys.rs: keys and signatures (secp256k1 through        *)
(* cylinder).  A signature stands for the key that made it and the bytes it *)
(* was made over; byte strings and hex strings are records.                 *)

\* bytes that are no key, no signature and no serialized message
Garbage == [garbage |-> TRUE]

\* a string that is not hexadecimal
NotHex == [not_hex |-> TRUE]

\* hex::encode / as_hex, and the from_hex of keys and signatures
Hex(bytes) == [hex |-> bytes]
FromHex(string) == IF "hex" \in DOMAIN string THEN Ok(string.hex) ELSE Err("ParseError")

\* protobuf write_to_bytes and parse_from_bytes
WriteToBytes(message) == [bytes_of |-> message]
ParseFromBytes(bytes) ==
    IF "bytes_of" \in DOMAIN bytes THEN Ok(bytes.bytes_of) ELSE Err("ProtobufError")

\* private keys: two that are valid and one that is not a secp256k1 key
ValidKeys == {"k1", "k2"}
Signers == ValidKeys \cup {"bad"}

PublicKeyBytes(private_key) == [public_key_of |-> private_key]

\* Signer::public_key
Signer_public_key(signer) ==
    IF signer \in ValidKeys THEN Ok(PublicKeyBytes(signer)) ELSE Err(SigningError)

\* Signer::sign
Signer_sign(signer, data) ==
    IF signer \in ValidKeys THEN Ok([signed_by |-> signer, data |-> data])
    ELSE Err(SigningError)

\* Verifier::verify: an error for bytes that are no key or no signature,
\* else whether the signature was made over data with the key's private key
PublicKey_verify(public_key, data, signature) ==
    IF "public_key_of" \notin DOMAIN public_key \/ "signed_by" \notin DOMAIN signature
    THEN Err("VerificationError")
    ELSE Ok(signature.signed_by = public_key.public_key_of /\ signature.data = data)

---------------------------------------------------------------------------
(* libtfslite client/transaction.rs: TransactionBuilder and validate *)

FAMILY_NAME == "tfslite"
FAMILY_VERSION == "0.1"
get_tfslite_prefix == "prefix"

\* TransactionBuilder::default()
TransactionBuilder_new ==
    [batcher_public_key |-> None, dependencies |-> None,
     family_name |-> Some(FAMILY_NAME), family_version |-> Some(FAMILY_VERSION),
     nonce |-> None, payload |-> None]

\* mutant: the signature is made over the payload bytes
TransactionBuilder_sign_Payload(signer, tx_header_bytes, payload_bytes) ==
    Signer_sign(signer, payload_bytes)

\* `signer.sign(&tx_header_bytes)`
TransactionBuilder_sign(signer, tx_header_bytes, payload_bytes) ==
    Signer_sign(signer, tx_header_bytes)

\* random_nonce: what thread_rng() gives when no nonce was supplied
TransactionBuilder_build(builder, signer, random_nonce) ==
    IF ~Signer_public_key(signer).ok THEN Err(SigningError)
    ELSE IF builder.family_name = None THEN Err(MissingField("family_name"))
    ELSE IF builder.family_version = None THEN Err(MissingField("family_version"))
    ELSE IF builder.payload = None THEN Err(MissingField("payload"))
    ELSE
    LET signer_public_key == Signer_public_key(signer).value
        batcher_public_key == IF IsSome(builder.batcher_public_key)
                              THEN builder.batcher_public_key.some
                              ELSE signer_public_key
        payload_bytes == WriteToBytes(builder.payload.some)
        tx_header ==
            [signer_public_key |-> Hex(signer_public_key),
             batcher_public_key |-> Hex(batcher_public_key),
             dependencies |-> IF IsSome(builder.dependencies)
                              THEN builder.dependencies.some ELSE <<>>,
             family_name |-> builder.family_name.some,
             family_version |-> builder.family_version.some,
             inputs |-> <<get_tfslite_prefix>>,
             outputs |-> <<get_tfslite_prefix>>,
             nonce |-> Hex(IF IsSome(builder.nonce) THEN builder.nonce.some
                           ELSE random_nonce),
             payload_sha512 |-> Hex(Sha512(payload_bytes))]
        tx_header_bytes == WriteToBytes(tx_header)
        signature == TransactionBuilder_sign(signer, tx_header_bytes, payload_bytes)
    IN IF ~signature.ok THEN Err(SigningError)
       ELSE Ok([header |-> tx_header_bytes,
                header_signature |-> Hex(signature.value),
                payload |-> payload_bytes])

TransactionValidationError(cause) == Err([validation |-> cause])

\* mutant: the payload hash is compared before the signature is verified
TransactionExt_validate_HashFirst(tx) ==
    LET header == ParseFromBytes(tx.header)
    IN IF ~header.ok THEN TransactionValidationError("header could not be parsed")
       ELSE
       LET public_key == FromHex(header.value.signer_public_key)
           signature == FromHex(tx.header_signature)
       IN IF ~public_key.ok
          THEN TransactionValidationError("signer public key could not be loaded")
          ELSE IF ~signature.ok
          THEN TransactionValidationError("error loading signature")
          ELSE IF Hex(Sha512(tx.payload)) # header.value.payload_sha512
          THEN TransactionValidationError("payload hash does not match header")
          ELSE
          LET verified == PublicKey_verify(public_key.value, tx.header, signature.value)
          IN IF ~verified.ok
             THEN TransactionValidationError("error during signature verification")
             ELSE IF ~verified.value
             THEN TransactionValidationError("signature is invalid")
             ELSE Ok("unit")

TransactionExt_validate(tx) ==
    LET header == ParseFromBytes(tx.header)
    IN IF ~header.ok THEN TransactionValidationError("header could not be parsed")
       ELSE
       LET public_key == FromHex(header.value.signer_public_key)
           signature == FromHex(tx.header_signature)
       IN IF ~public_key.ok
          THEN TransactionValidationError("signer public key could not be loaded")
          ELSE IF ~signature.ok
          THEN TransactionValidationError("error loading signature")
          ELSE
          LET verified == PublicKey_verify(public_key.value, tx.header, signature.value)
          IN IF ~verified.ok
             THEN TransactionValidationError("error during signature verification")
             ELSE IF ~verified.value
             THEN TransactionValidationError("signature is invalid")
             ELSE IF Hex(Sha512(tx.payload)) # header.value.payload_sha512
             THEN TransactionValidationError("payload hash does not match header")
             ELSE Ok("unit")

---------------------------------------------------------------------------
(* libtfslite client/batch.rs: BatchBuilder *)

\* BatchBuilder::default()
BatchBuilder_new == [transactions |-> None]

BatchBuilder_with_transactions(builder, transactions) ==
    [builder EXCEPT !.transactions = Some(transactions)]

\* mutant: the header lists the header signatures in reverse
TransactionIds_Reversed(transactions) ==
    [i \in 1..Len(transactions) |->
        transactions[Len(transactions) + 1 - i].header_signature]

\* `transactions.iter().map(|tx| tx.get_header_signature().to_string()).collect()`
TransactionIds(transactions) ==
    [i \in 1..Len(transactions) |-> transactions[i].header_signature]

BatchBuilder_build(builder, signer) ==
    IF ~Signer_public_key(signer).ok THEN Err(SigningError)
    ELSE IF builder.transactions = None THEN Err(MissingField("transactions"))
    ELSE
    LET batch_header ==
            [signer_public_key |-> Hex(Signer_public_key(signer).value),
             transaction_ids |-> TransactionIds(builder.transactions.some)]
        batch_header_bytes == WriteToBytes(batch_header)
        signature == Signer_sign(signer, batch_header_bytes)
    IN IF ~signature.ok THEN Err(SigningError)
       ELSE Ok([header |-> batch_header_bytes,
                header_signature |-> Hex(signature.value),
                transactions |-> builder.transactions.some])

---------------------------------------------------------------------------
(* SpecLib: the conversions of state.rs and the builders of libtfslite,     *)
(* each called with arguments drawn from small sets                         *)

\* a call of a function with no side effect: what was called and what it
\* returned.  The calls have no effect on one another, so a behaviour makes
\* one call.
LibCall(fn, args, value) ==
    /\ lib_call' = [fn |-> fn, args |-> args]
    /\ lib_ret' = value
    /\ UNCHANGED <<storeVars, apiVars, driverVars, taskVars>>

\* strings handed to TransactionStatus::from: the six names and others
StatusStrings == StatusNames \cup {"", "local", "Committed", "COMMITED", "REJECTED"}

\* String::from(status)
LStatusIntoString(status) == LibCall("String::from", status, StatusToString(status))

\* TransactionStatus::from(value)
LStatusFromString(value) ==
    LibCall("TransactionStatus::from", value, StatusFromString(value))

\* the data of a block
BlockData == {<<>>, <<1, 2>>}

\* a builder after with_.. calls for the fields of supplied
SuppliedBuilder(operation, supplied, data) ==
    [f \in PayloadFields \cup {"operation"} |->
        IF f = "operation" THEN operation
        ELSE IF f \notin supplied THEN PayloadBuilder_new(operation)[f]
        ELSE IF f = "block"
        THEN PayloadBuilder_with_block(PayloadBuilder_new(operation), data)[f]
        ELSE PayloadBuilder_with(PayloadBuilder_new(operation), f, f)[f]]

\* PayloadBuilder::new(operation).with_..(..) ... .build()
LPayloadBuild(operation, supplied, data) ==
    LibCall("PayloadBuilder::build", SuppliedBuilder(operation, supplied, data),
            PayloadBuilder_build(SuppliedBuilder(operation, supplied, data)))

\* payloads handed to a TransactionBuilder
Payloads ==
    {PayloadBuilder_build(SuppliedBuilder("FILE_SEAL", {"uuid"}, <<>>)).value,
     PayloadBuilder_build(SuppliedBuilder("FILE_APPEND", {"uuid", "block"}, <<1, 2>>)).value}

\* TransactionBuilder::new() after with_.. calls for the arguments that are Some
TransactionBuilders ==
    {[TransactionBuilder_new EXCEPT !.payload = payload,
                                    !.dependencies = dependencies,
                                    !.nonce = nonce,
                                    !.batcher_public_key = batcher_public_key] :
        payload \in {None} \cup {Some(v) : v \in Payloads},
        dependencies \in {None, Some(<<>>), Some(<<"d1", "d2">>)},
        nonce \in {None, Some("n1")},
        batcher_public_key \in {None, Some(PublicKeyBytes("k2")), Some(Garbage)}}

RandomNonces == {"r1", "r2"}

\* TransactionBuilder::new().with_..(..) ... .build(signer)
LTransactionBuild(builder, signer, random_nonce) ==
    LibCall("TransactionBuilder::build", [builder |-> builder, signer |-> signer],
            TransactionBuilder_build(builder, signer, random_nonce))

\* what is done to a built transaction before it is validated
HeaderTampers == {"none", "garbage", "key_not_hex", "key_garbage", "nonce"}
SignatureTampers == {"none", "not_hex", "garbage", "other_signer"}

TamperedHeader(tx, how) ==
    LET header == ParseFromBytes(tx.header).value
    IN CASE how = "none" -> tx.header
         [] how = "garbage" -> Garbage
         [] how = "key_not_hex" ->
                WriteToBytes([header EXCEPT !.signer_public_key = NotHex])
         [] how = "key_garbage" ->
                WriteToBytes([header EXCEPT !.signer_public_key = Hex(Garbage)])
         [] how = "nonce" -> WriteToBytes([header EXCEPT !.nonce = Hex("n2")])

TamperedSignature(tx, how) ==
    CASE how = "none" -> tx.header_signature
      [] how = "not_hex" -> NotHex
      [] how = "garbage" -> Hex(Garbage)
      [] how = "other_signer" -> Hex(Signer_sign("k2", tx.header).value)

Tampered(tx, tampers) ==
    [header |-> TamperedHeader(tx, tampers.header),
     header_signature |-> TamperedSignature(tx, tampers.signature),
     payload |-> IF tampers.payload THEN [altered |-> tx.payload] ELSE tx.payload]

\* the transactions built by k1 that are then tampered with
BuiltTransactions ==
    {TransactionBuilder_build(builder, "k1", "r1").value :
        builder \in {b \in TransactionBuilders :
                         b.payload # None /\ b.nonce = None /\ b.dependencies = None}}

\* tx.validate() of a built transaction after the tampering
LValidate(tx, tampers) ==
    LibCall("Transaction::validate", [built |-> tx, tampers |-> tampers],
            TransactionExt_validate(Tampered(tx, tampers)))

InitLib ==
    /\ StoreEmpty
    /\ HistoryEmpty
    /\ ret = Ok("unit")
    /\ IdbEmpty
    /\ DriverIdle

\* the transaction lists handed to a BatchBuilder: of 0, 1 and 2 transactions
TransactionLists ==
    {<<>>} \cup {<<tx>> : tx \in BuiltTransactions}
           \cup {<<tx1, tx2>> : tx1 \in BuiltTransactions, tx2 \in BuiltTransactions}

BatchBuilders ==
    {BatchBuilder_new}
        \cup {BatchBuilder_with_transactions(BatchBuilder_new, transactions) :
                  transactions \in TransactionLists}

\* BatchBuilder::new() [.with_transactions(..)] .build(signer)
LBatchBuild(builder, signer) ==
    LibCall("BatchBuilder::build", [builder |-> builder, signer |-> signer],
            BatchBuilder_build(builder, signer))

\* no call was made yet
NotCalled == lib_call.fn = "none"

StatusIntoString == NotCalled /\ \E status \in Statuses : LStatusIntoString(status)

StatusFromStringCall == NotCalled /\ \E value \in StatusStrings : LStatusFromString(value)

PayloadBuild ==
    /\ NotCalled
    /\ \E operation \in PayloadOperations, supplied \in SUBSET PayloadFields,
          data \in BlockData :
           LPayloadBuild(operation, supplied, data)

TransactionBuild ==
    /\ NotCalled
    /\ \E builder \in TransactionBuilders, signer \in Signers,
          random_nonce \in RandomNonces :
           LTransactionBuild(builder, signer, random_nonce)

Validate ==
    /\ NotCalled
    /\ \E tx \in BuiltTransactions, header \in HeaderTampers,
          signature \in SignatureTampers, payload \in BOOLEAN :
           LValidate(tx, [header |-> header, signature |-> signature,
                          payload |-> payload])

BatchBuild ==
    /\ NotCalled
    /\ \E builder \in BatchBuilders, signer \in Signers : LBatchBuild(builder, signer)

NextLib ==
    \/ BatchBuild
    \/ StatusIntoString
    \/ StatusFromStringCall
    \/ PayloadBuild
    \/ TransactionBuild
    \/ Validate

SpecLib == InitLib /\ [][NextLib]_vars

---------------------------------------------------------------------------
(* SpecTasks: the lock discipline of client.rs.  The FileUploads of one     *)
(* client share its store, an Arc<Mutex<dyn LocalStateStore>>, and run as   *)
(* tasks of one thread (a FileUpload is not Send), so a task runs until it  *)
(* suspends at an await.  Every store call of prepare, send and wait is     *)
(*     let store = self.store.lock().unwrap();                              *)
(*     store.<call>(..).await;                                              *)
(*     drop(store);                                                         *)
(* and the HTTP requests and the sleep of the wait loop come between these. *)
(* What the calls do to the tables is left to Spec; the order in which a    *)
(* task makes its calls is left open here.  A task that is between lock()   *)
(* and an await, or between the store call's return and drop(store), is the *)
(* one the thread runs, and no other task takes a step then.                *)

StoreCalls == {"add_tx", "update_tx", "get_txs", "get_tx_bytes", "flush_txs"}
HttpCalls == {"submit", "status"}

At(t, at, call) == [tasks EXCEPT ![t] = [at |-> at, call |-> call]]

\* the thread is free to poll the task t: no other task is in a run of code
\* that has no await
CanRun(t) == \A u \in TaskIds \ {t} : tasks[u].at \notin {"locked", "returned"}

\* `let store = self.store.lock().unwrap()`: the guard is taken; when another
\* task of the thread owns it, lock() never returns or panics (std::sync::Mutex
\* on the thread that holds the lock) and the task is stuck
TLock(t, call) ==
    /\ tasks[t].at = "idle"
    /\ CanRun(t)
    /\ IF mutex = "none"
       THEN /\ mutex' = t
            /\ tasks' = At(t, "locked", call)
       ELSE /\ mutex' = mutex
            /\ tasks' = At(t, "stuck", call)
    /\ UNCHANGED <<storeVars, apiVars, driverVars, libVars, writer>>

\* `store.<call>(..).await` is polled with the guard alive: the future of the
\* IndexedDB backend suspends at its first request (suspends), that of the
\* redb backend runs to its end
TCall(t, suspends) ==
    /\ tasks[t].at = "locked"
    /\ tasks' = At(t, IF suspends THEN "awaiting" ELSE "returned", tasks[t].call)
    /\ UNCHANGED <<storeVars, apiVars, driverVars, libVars, mutex, writer>>

\* the backend's requests are done and the task is woken
TResume(t) ==
    /\ tasks[t].at = "awaiting"
    /\ CanRun(t)
    /\ tasks' = At(t, "returned", tasks[t].call)
    /\ UNCHANGED <<storeVars, apiVars, driverVars, libVars, mutex, writer>>

\* mutant: the guard lives on after the store call
TDrop_KeepsGuard(t) ==
    /\ tasks[t].at = "returned"
    /\ tasks' = At(t, "idle", "none")
    /\ UNCHANGED <<storeVars, apiVars, driverVars, libVars, mutex, writer>>

\* `drop(store)`
TDrop(t) ==
    /\ tasks[t].at = "returned"
    /\ mutex' = IF mutex = t THEN "none" ELSE mutex
    /\ tasks' = At(t, "idle", "none")
    /\ UNCHANGED <<storeVars, apiVars, driverVars, libVars, writer>>

\* `http_client.post(..).send().await`: the request of submit_transaction or
\* of get_transaction_statuses is sent and the task suspends
THttp(t, call) ==
    /\ tasks[t].at = "idle"
    /\ CanRun(t)
    /\ tasks' = At(t, "http", call)
    /\ UNCHANGED <<storeVars, apiVars, driverVars, libVars, mutex, writer>>

\* `gloo_timers::future::sleep(..).await` of the wait loop
TSleep(t) ==
    /\ tasks[t].at = "idle"
    /\ CanRun(t)
    /\ tasks' = At(t, "sleeping", "none")
    /\ UNCHANGED <<storeVars, apiVars, driverVars, libVars, mutex, writer>>

\* the response has come, or the sleep is over
TWake(t) ==
    /\ tasks[t].at \in {"http", "sleeping"}
    /\ CanRun(t)
    /\ tasks' = At(t, "idle", "none")
    /\ UNCHANGED <<storeVars, apiVars, driverVars, libVars, mutex, writer>>

InitTasks ==
    /\ StoreEmpty
    /\ HistoryEmpty
    /\ ret = Ok("unit")
    /\ IdbEmpty
    /\ DriverIdle

NextTasks ==
    \E t \in TaskIds :
        \/ \E call \in StoreCalls : TLock(t, call)
        \/ \E suspends \in BOOLEAN : TCall(t, suspends)
        \/ TResume(t)
        \/ TDrop(t)
        \/ \E call \in HttpCalls : THttp(t, call)
        \/ TSleep(t)
        \/ TWake(t)

SpecTasks == InitTasks /\ [][NextTasks]_vars

---------------------------------------------------------------------------
(* SpecAddTx: add_tx calls made by several tasks on one store, each with a  *)
(* transaction of its own.  A call opens its write transaction, reads       *)
(* next_order, and makes its writes and commits; the tasks are interleaved  *)
(* between these steps.  Each call is made on both backends.                *)

\* the fields of a task that is in an add_tx call
InAddTx(at, file_id, sig, next_order, idb_next_order) ==
    [at |-> at, call |-> "add_tx", file_id |-> file_id, sig |-> sig,
     next_order |-> next_order, idb_next_order |-> idb_next_order]

Calling(t) == tasks[t].at \in {"waiting", "begun", "read"}

\* the task calls add_tx(file_id, transaction) with a transaction that is not
\* staged and that no other call was given
ACall(t, file_id, sig) ==
    /\ tasks[t].at = "idle"
    /\ sig \notin DOMAIN tx_info
    /\ \A u \in TaskIds : Calling(u) => tasks[u].sig # sig
    /\ tasks' = [tasks EXCEPT ![t] = InAddTx("waiting", file_id, sig, 0, 0)]
    /\ UNCHANGED <<storeVars, apiVars, driverVars, libVars, mutex, writer>>

\* mutant: a write transaction is opened while another one is open
ABegin_NoExclusion(t) ==
    /\ tasks[t].at = "waiting"
    /\ writer' = t
    /\ tasks' = [tasks EXCEPT ![t].at = "begun"]
    /\ UNCHANGED <<storeVars, apiVars, driverVars, libVars, mutex>>

\* `self.db.begin_write()?` returns when no other write transaction is open;
\* `self.db.transaction(&["files", "tx_info", "tx_bytes"], ReadWrite)` starts
\* when no other transaction on these object stores is running
ABegin(t) ==
    /\ tasks[t].at = "waiting"
    /\ writer = "none"
    /\ writer' = t
    /\ tasks' = [tasks EXCEPT ![t].at = "begun"]
    /\ UNCHANGED <<storeVars, apiVars, driverVars, libVars, mutex>>

\* `table_files.get(file_id)`, `store_files.get(&key).await`
ARead(t) ==
    /\ tasks[t].at = "begun"
    /\ tasks' = [tasks EXCEPT ![t].at = "read",
                              ![t].next_order = read_next_order(tasks[t].file_id),
                              ![t].idb_next_order = idb_read_next_order(tasks[t].file_id)]
    /\ UNCHANGED <<storeVars, apiVars, driverVars, libVars, mutex, writer>>

\* the inserts and `write_txn.commit()?`; the add and put requests and
\* `tx.done().await?`
ACommit(t) ==
    /\ tasks[t].at = "read"
    /\ add_tx_write(tasks[t].file_id, Transaction(tasks[t].sig, <<>>, "API", <<>>),
                    tasks[t].next_order, TRUE)
    /\ idb_add_tx_write(tasks[t].file_id, Transaction(tasks[t].sig, <<>>, "API", <<>>),
                        tasks[t].idb_next_order)
    /\ ret' = Ok("unit")
    /\ idb_ret' = Ok("unit")
    /\ writer' = IF writer = t THEN "none" ELSE writer
    /\ tasks' = [tasks EXCEPT ![t] = [at |-> "idle", call |-> "none"]]
    /\ UNCHANGED <<histVars, driverVars, libVars, mutex>>

InitAddTx ==
    /\ StoreEmpty
    /\ HistoryEmpty
    /\ ret = Ok("unit")
    /\ IdbEmpty
    /\ DriverIdle

NextAddTx ==
    \E t \in TaskIds :
        \/ \E file_id \in FileIds, sig \in TxIds : ACall(t, file_id, sig)
        \/ ABegin(t)
        \/ ARead(t)
        \/ ACommit(t)

SpecAddTx == InitAddTx /\ [][NextAddTx]_vars

---------------------------------------------------------------------------
(* Claims about the store's API (SpecStore) *)

\* the rows expected for a file after the add_tx calls recorded in added[f]
ExpectedRows(f) ==
    [i \in 1..Len(added[f]) |->
        [order |-> i - 1, tx_id |-> added[f][i], submit_id |-> None, status |-> "Local"]]

AddedOnce(f) == \A i \in 1..Len(added[f]) : added[f][i] \notin restaged

\* C1: for a file that had no file row, after N >= 1 successful add_tx calls
\* on it (and no update_tx), get_txs returns exactly N rows with order
\* 0..N-1, row i being the i-th transaction added, each Local with no
\* submit_id.
C1_AddTxOrders ==
    \A f \in FileIds :
        plain[f] /\ Len(added[f]) >= 1 =>
            /\ get_txs(f).ok
            /\ get_txs(f).value = ExpectedRows(f)

\* The same holds when none of the add_tx calls was given a transaction that
\* was staged at the time of the call.
AddTxOrdersOfNewTransactions ==
    \A f \in FileIds :
        plain[f] /\ Len(added[f]) >= 1 /\ AddedOnce(f) =>
            /\ get_txs(f).ok
            /\ get_txs(f).value = ExpectedRows(f)

\* C4: a row that get_txs shows with a submit_id has a submit_id after every
\* store call that leaves the row staged.
C4_SubmitIdKept ==
    [][\A t \in TxIds :
          (/\ t \in DOMAIN tx_info
           /\ t \in DOMAIN tx_info'
           /\ TransactionInfo(t).submit_id # None)
          => TransactionInfo(t)'.submit_id # None]_vars

\* C14: an add_tx call either writes all of the file row with next_order
\* incremented, the file's listing of the tx id, the TransactionInfo row at
\* the order read and the transaction bytes under the tx id, or leaves the
\* four tables as they were.
C14_AddTxAtomic ==
    [][\A f \in FileIds, t \in TxIds, fault \in AddTxFaults :
          SAddTx(f, t, fault) =>
              LET next_order == IF f \in DOMAIN files THEN files[f] ELSE 0
              IN \/ UNCHANGED storeVars
                 \/ /\ f \in DOMAIN files' /\ files'[f] = next_order + 1
                    /\ t \in file_txs'[f]
                    /\ t \in DOMAIN tx_info' /\ tx_info'[t].order = next_order
                    /\ t \in DOMAIN tx_bytes' /\ tx_bytes'[t].header_signature = t]_vars

\* C15: after every sequence of calls of the LocalStateStore trait with no
\* backend fault, made with the same arguments on both backends, the last
\* call returned the same result on both, and get_files, get_txs of every
\* file and get_tx_bytes of every transaction return the same on both.
C15_BackendsAgree ==
    clean =>
        /\ ret = idb_ret
        /\ get_files = idb_get_files
        /\ \A f \in FileIds : get_txs(f) = idb_get_txs(f)
        /\ \A t \in TxIds : get_tx_bytes(t) = idb_get_tx_bytes(t)

\* C16: after a flush_txs(f) call that returned Ok, f has no file row,
\* get_txs(f) is NoSuchFile, get_files does not contain f and get_tx_bytes(t)
\* is NoSuchTransaction for every t that was staged under f; and a flush_txs
\* call that meets no backend error returns Ok whether or not f has rows or a
\* file row.
C16_FlushRemovesAll ==
    [][\A f \in FileIds :
          /\ SFlushTxs(f, FALSE) => ret' = Ok("unit")
          /\ \A fails \in BOOLEAN :
                 SFlushTxs(f, fails) /\ ret'.ok =>
                     /\ f \notin DOMAIN files'
                     /\ get_txs(f)' = Err("NoSuchFile")
                     /\ f \notin get_files'.value
                     /\ \A t \in file_txs[f] :
                            get_tx_bytes(t)' = Err("NoSuchTransaction")]_vars

\* flush_txs calls have removed the rows of two transactions and no file row
\* is left
C16_Witness ==
    /\ Cardinality(flushed) >= 2
    /\ files = EmptyTable
    /\ tx_info = EmptyTable
    /\ tx_bytes = EmptyTable

\* get_txs(f) is NoSuchFile exactly when f has no file row, and get_files
\* returns the files that have a file row
FileRowsRead ==
    /\ \A f \in FileIds : (get_txs(f) = Err("NoSuchFile")) <=> (f \notin DOMAIN files)
    /\ get_files = Ok(DOMAIN files)

\* C17 as stated: get_txs(f) is NoSuchFile exactly when f has no file row,
\* get_files returns exactly the files with a file row, and these are the
\* files with a successful add_tx since their last flush_txs.
C17_FilesAreAdded ==
    /\ FileRowsRead
    /\ DOMAIN files = {f \in FileIds : "add_tx" \in since_flush[f]}

\* C17, amended: get_txs(f) is NoSuchFile exactly when f has no file row,
\* get_files returns exactly the files with a file row, and these are the
\* files with a successful add_tx or set_has_file since their last flush_txs.
C17_FilesAreAddedOrMarked ==
    /\ FileRowsRead
    /\ DOMAIN files = {f \in FileIds : since_flush[f] # {}}

\* one file has its file row from set_has_file alone and no rows, another
\* from add_tx, and a third call flushed a file in between
C17_Witness ==
    /\ since_flush["f1"] = {"set_has_file"}
    /\ get_txs("f1") = Ok(<<>>)
    /\ since_flush["f2"] = {"add_tx"}
    /\ get_files = Ok({"f1", "f2"})
    /\ flushed # {}

\* C18: update_tx(tx_id, submit_id, status) on a tx id with a row returns Ok,
\* and afterwards the row shows the submit_id and the status that were given,
\* a field that was not given and the order as before, and every other row
\* and table is as before; on a tx id with no row it returns NoSuchTransaction
\* and changes nothing.
C18_UpdateTxFrame ==
    [][\A t \in TxIds, submit_id \in ApiSubmitIds, status \in ApiStatuses :
          SUpdateTx(t, submit_id, status) =>
              IF t \notin DOMAIN tx_info
              THEN /\ ret' = Err("NoSuchTransaction")
                   /\ UNCHANGED storeVars
              ELSE /\ ret' = Ok("unit")
                   /\ DOMAIN tx_info' = DOMAIN tx_info
                   /\ TransactionInfo(t)'.submit_id =
                          IF IsSome(submit_id) THEN submit_id
                          ELSE TransactionInfo(t).submit_id
                   /\ TransactionInfo(t)'.status =
                          IF IsSome(status) THEN status.some
                          ELSE TransactionInfo(t).status
                   /\ TransactionInfo(t)'.order = TransactionInfo(t).order
                   /\ \A u \in DOMAIN tx_info \ {t} : tx_info'[u] = tx_info[u]
                   /\ UNCHANGED <<files, file_txs, tx_bytes>>]_vars

\* the order values of the rows of a file
Orders(f) == {tx_info[t].order : t \in file_txs[f] \cap DOMAIN tx_info}

\* C27: in every state the store reaches by add_tx, update_tx, flush_txs and
\* set_has_file calls, the rows of each file that has a file row have
\* pairwise distinct order values that form the range 0..n-1, and the file
\* row's next_order is n, the number of rows of the file.
C27_OrdersContiguous ==
    \A f \in DOMAIN files :
        LET n == Cardinality(file_txs[f])
        IN /\ file_txs[f] \subseteq DOMAIN tx_info
           /\ Cardinality(Orders(f)) = n
           /\ Orders(f) = 0..(n - 1)
           /\ files[f] = n

\* an add_tx step keeps every row there is, in both backends, with its order,
\* submit_id and status and under its file, and adds one row when it returns Ok
KeepsRows(f, t) ==
    /\ \A u \in DOMAIN tx_info : u \in DOMAIN tx_info' /\ tx_info'[u] = tx_info[u]
    /\ \A g \in FileIds : file_txs[g] \subseteq file_txs'[g]
    /\ \A g \in FileIds \ {f} : file_txs'[g] = file_txs[g]
    /\ ret'.ok => /\ DOMAIN tx_info' = DOMAIN tx_info \cup {t}
                  /\ t \notin DOMAIN tx_info
                  /\ file_txs'[f] = file_txs[f] \cup {t}
    /\ \A u \in DOMAIN idb_tx_info :
           u \in DOMAIN idb_tx_info' /\ idb_tx_info'[u] = idb_tx_info[u]
    /\ idb_ret'.ok => /\ DOMAIN idb_tx_info' = DOMAIN idb_tx_info \cup {t}
                      /\ t \notin DOMAIN idb_tx_info

\* C31: add_tx is append-only and order-stable: a call add_tx(f, tx) that
\* returns Ok adds one row, and no add_tx call changes the order, submit_id or
\* status of a row that exists, of f or of another file, or removes a row.
C31_AddTxAppendOnly ==
    [][\A f \in FileIds, t \in TxIds, fault \in AddTxFaults :
          SAddTx(f, t, fault) => KeepsRows(f, t)]_vars

\* The same holds of the add_tx calls that are given a transaction that is not
\* staged.
AddTxAppendOnlyOfNewTransactions ==
    [][\A f \in FileIds, t \in TxIds, fault \in AddTxFaults :
          SAddTx(f, t, fault) /\ ~Staged(t) => KeepsRows(f, t)]_vars

\* what the read operations return for the file g is as before the step
FileUnchanged(g) ==
    /\ get_txs(g)' = get_txs(g)
    /\ \A t \in file_txs[g] : get_tx_bytes(t)' = get_tx_bytes(t)
    /\ idb_get_txs(g)' = idb_get_txs(g)
    /\ \A t \in IdbFileTxs(g) : idb_get_tx_bytes(t)' = idb_get_tx_bytes(t)

\* the staged files other than f are as before the step
OthersUnchanged(f) ==
    \A g \in (DOMAIN files \cup DOMAIN idb_files) \ {f} : FileUnchanged(g)

\* a flush_txs, an add_tx or an update_tx call on the file f or on one of its
\* transactions
CallOn(f) ==
    \/ \E fails \in BOOLEAN : SFlushTxs(f, fails)
    \/ \E t \in TxIds, fault \in AddTxFaults : SAddTx(f, t, fault)
    \/ \E t \in file_txs[f] \cup IdbFileTxs(f), submit_id \in ApiSubmitIds,
             status \in ApiStatuses : SUpdateTx(t, submit_id, status)

\* C37: files are isolated in the store: after any sequence of calls, a
\* flush_txs(f), an add_tx(f, ..) with any transaction and an update_tx on a
\* transaction of f leave every other staged file g as it was: get_txs(g)
\* returns what it returned before and get_tx_bytes what it returned before
\* for each of g's rows.
C37_FilesIsolated ==
    [][\A f \in FileIds : CallOn(f) => OthersUnchanged(f)]_vars

\* The same holds as long as no add_tx call was given a transaction that was
\* staged at the time of the call.
FilesIsolatedWithNewTransactions ==
    [][\A f \in FileIds : CallOn(f) /\ restaged' = {} => OthersUnchanged(f)]_vars

---------------------------------------------------------------------------
(* Claims about the upload driver (Spec) *)

AllCommitted(file_id) == \A t \in file_txs[file_id] : StatusOf(t) = "Committed"

\* a step that removes a staged row or the file row of the upload
RemovesRows ==
    \/ \E t \in DOMAIN tx_info : t \notin DOMAIN tx_info'
    \/ uuid \in DOMAIN files /\ uuid \notin DOMAIN files'

\* C2: the driver removes rows of the file only by the flush_txs call of
\* wait_transactions, and that call is made in a state where every row of the
\* file is stored Committed.
C2_FlushOnlyCommitted ==
    [][RemovesRows => pc = "wait_flush" /\ AllCommitted(uuid)]_vars

\* wait_transactions has flushed the file after a resubmission
C2_Witness ==
    /\ result = Returned("wait", "Ok")
    /\ uuid \notin DOMAIN files
    /\ tx_info = EmptyTable
    /\ RePosts >= 1

\* C3 (SpecLive): once send_transactions has returned Ok, wait_transactions
\* eventually returns Ok with the file's rows flushed.
C3_UploadCompletes ==
    (result = Returned("send", "Ok"))
        ~> (result = Returned("wait", "Ok") /\ uuid \notin DOMAIN files)

\* the upload completed after the settled remote saw a forgotten transaction
\* resubmitted
C3_Witness ==
    /\ settled
    /\ result = Returned("wait", "Ok")
    /\ uuid \notin DOMAIN files
    /\ RePosts >= 1

\* position of a status in the sequence Local, Queued, Pending, Committed
Rank(status) ==
    CASE status = "Local" -> 0
      [] status = "Queued" -> 1
      [] status = "Pending" -> 2
      [] status = "Committed" -> 3
      [] OTHER -> -1

\* C5: whenever the stored status of a row changes from one status of the
\* sequence Local, Queued, Pending, Committed to another, it moves forward in
\* the sequence, or the poll answered UNKNOWN for the row and the row is
\* stored Local.  (What is stored for INVALID_STATUS is C10's subject.)
C5_StatusForward ==
    [][\A t \in DriverSigs :
          (/\ t \in DOMAIN tx_info
           /\ t \in DOMAIN tx_info'
           /\ StatusOf(t)' # StatusOf(t)
           /\ Rank(StatusOf(t)) >= 0
           /\ Rank(StatusOf(t)') >= 0)
          => \/ Rank(StatusOf(t)') > Rank(StatusOf(t))
             \/ /\ polled' # None
                /\ polled'.tx_id = t
                /\ polled'.answer = "UNKNOWN"
                /\ StatusOf(t)' = "Local"]_vars

Dependencies(tx_id) == tx_bytes[tx_id].dependencies

\* C6: after prepare_transactions the staged rows form a dependency chain in
\* store order: the row with order 0 has no dependency and the transaction
\* at order i depends on exactly the transaction at order i-1.
C6_DependencyChain ==
    result = Returned("prepare", "Ok") /\ get_txs(uuid).ok =>
        \A i \in 1..Len(Rows(uuid)) :
            /\ Rows(uuid)[i].order = i - 1
            /\ get_tx_bytes(Rows(uuid)[i].tx_id).ok
            /\ Dependencies(Rows(uuid)[i].tx_id) =
                   IF i = 1 THEN <<>> ELSE <<Rows(uuid)[i - 1].tx_id>>

\* the first Len(posted) rows of the file are the posted ones, in order, and
\* hold the submit ids the POSTs returned
PostedPrefix ==
    \A i \in 1..Len(posted) :
        /\ Rows(uuid)[i].tx_id = posted[i].tx_id
        /\ Rows(uuid)[i].submit_id = Some(posted[i].submit_id)

\* the rows after the posted ones are as they were when the call read them
RestUntouched ==
    /\ Len(Rows(uuid)) = Len(posted) + Len(snap)
    /\ \A i \in 1..Len(snap) : Rows(uuid)[Len(posted) + i] = snap[i]

\* C7: while send_transactions runs, the rows POSTed so far are the first
\* rows of the file in ascending order, each holds the submit_id its POST
\* returned and the status it had before, and no later row has been touched.
C7_SendInOrder ==
    pc = "send_loop" =>
        /\ PostedPrefix
        /\ RestUntouched
        /\ \A i \in 1..Len(posted) : Rows(uuid)[i].status = posted[i].status

\* every row of a file with a chunk has been POSTed by one send call
C7_Witness ==
    /\ pc = "send_loop"
    /\ snap = <<>>
    /\ Len(posted) = MaxChunks + 3
    /\ \A i \in 1..Len(posted) : Rows(uuid)[i].status = "Local"

C9_UnknownResubmitted ==
    /\ \A t \in DOMAIN tx_info : tx_info[t].status # "UNKNOWN"
    /\ polled # None /\ polled.answer = "UNKNOWN" => StatusOf(polled.tx_id) = "Local"
    /\ pc = "wait_poll" /\ scanned =>
           \A i \in 1..Len(Rows(uuid)) :
               Rows(uuid)[i].status = "Local" =>
                   \E j \in 1..Len(posted) :
                       /\ posted[j].tx_id = Rows(uuid)[i].tx_id
                       /\ Rows(uuid)[i].submit_id = Some(posted[j].submit_id)
                       /\ posted[j].submit_id =
                              SubmitId(posted[j].tx_id, remote[posted[j].tx_id])
                       /\ remote[posted[j].tx_id] >= 2

\* the wait loop is about to poll again after it resubmitted a row
C9_Witness ==
    /\ pc = "wait_poll"
    /\ scanned
    /\ posted # <<>>
    /\ \E i \in 1..Len(Rows(uuid)) :
           /\ Rows(uuid)[i].status = "Local"
           /\ Rows(uuid)[i].submit_id = Some(SubmitId(Rows(uuid)[i].tx_id, 2))

\* C34: in the wait loop a POST is made only for the row the scan is at and
\* only when its stored status is Local, and for no row twice in one
\* iteration; the POST leaves the stored status Local, replaces the row's
\* submit_id by the one the POST returned and leaves the other rows as they
\* were; a scan step without a POST changes no row; and the next poll asks
\* for the submit_id that each POST of the iteration returned.
C34_ResubmitOnlyLocal ==
    [][/\ pc = "wait_scan" /\ remote' # remote =>
              /\ snap # <<>>
              /\ \E t \in DriverSigs :
                    /\ t = Head(snap).tx_id
                    /\ StatusOf(t) = "Local"
                    /\ remote' = [remote EXCEPT ![t] = @ + 1]
                    /\ \A j \in 1..Len(posted) : posted[j].tx_id # t
                    /\ StatusOf(t)' = "Local"
                    /\ StoredRow(t)'.submit_id = Some(SubmitId(t, remote'[t]))
                    /\ StoredRow(t)'.submit_id # StoredRow(t).submit_id
                    /\ StoredRow(t)'.order = StoredRow(t).order
                    /\ \A u \in DOMAIN tx_info \ {t} :
                           u \in DOMAIN tx_info' /\ tx_info'[u] = tx_info[u]
       /\ pc = "wait_scan" /\ remote' = remote => tx_info' = tx_info
       /\ pc = "wait_poll" /\ pc' = "wait_update" =>
              \A i \in 1..Len(posted) :
                  \E j \in 1..Len(snap') :
                      /\ snap'[j].tx_id = posted[i].tx_id
                      /\ snap'[j].submit_id = posted[i].submit_id]_vars

\* the wait loop polls again after an iteration that left a Pending and a
\* Committed row alone and resubmitted a Local one
C34_Witness ==
    /\ pc = "wait_update"
    /\ scanned
    /\ Len(posted) = 0
    /\ \E i \in 1..Len(snap) : snap[i].submit_id = SubmitId(snap[i].tx_id, 2)
    /\ \E t \in file_txs[uuid] : StatusOf(t) = "Pending" /\ remote[t] = 1
    /\ \E t \in file_txs[uuid] : StatusOf(t) = "Committed" /\ remote[t] = 1

\* C10: a poll answer INVALID_STATUS, or a string that is no status name,
\* leaves the row stored Local.
C10_InvalidNormalized ==
    polled # None /\ polled.answer \in {"INVALID_STATUS", "REJECTED"} =>
        StatusOf(polled.tx_id) = "Local"

\* the rows of the file as get_txs returns them, each with a submit_id
AllSubmitted == get_txs(uuid).ok /\ \A i \in 1..Len(Rows(uuid)) : Rows(uuid)[i].submit_id # None

C13_WaitIdempotent ==
    [][result = Returned("wait", "Ok") /\ result'.call = "wait" /\ result' # result =>
          /\ result'.value \in {"Ok", "running"}
          /\ UNCHANGED storeVars]_vars

---------------------------------------------------------------------------
(* Claims about prepare_transactions (SpecPrepare) *)

CeilDiv(a, b) == (a + b - 1) \div b

\* the rows of the file whose transaction has the operation op
StagedOps(op) == {t \in file_txs[uuid] : t \in DOMAIN tx_bytes /\ tx_bytes[t].op = op}

\* the operations of the staged transactions, in store order
RowOps == [i \in 1..Len(Rows(uuid)) |-> tx_bytes[Rows(uuid)[i].tx_id].op]

\* C19: when prepare_transactions has returned Ok for a file of S bytes and a
\* chunk_size C, the chunk stream yielded ceil(S/C) chunks, each of exactly C
\* bytes except the last, which holds between 1 and C bytes, and as many
\* FILE_APPEND transactions are staged.
C19_ChunksOfChunkSize ==
    result = Returned("prepare", "Ok") =>
        LET S == prep.file_size
            C == prep.chunk_size
            n == Len(prep.blocks)
        IN /\ n = CeilDiv(S, C)
           /\ \A i \in 1..n :
                  IF i < n THEN Len(prep.blocks[i]) = C
                  ELSE Len(prep.blocks[i]) \in 1..C
           /\ S % C = 0 => \A i \in 1..n : Len(prep.blocks[i]) = C
           /\ Cardinality(StagedOps("FILE_APPEND")) = CeilDiv(S, C)

\* C20: when prepare_transactions has returned Ok, the rows of the file are,
\* in store order, ACCOUNT_DEPOSIT, FILE_CREATE, the FILE_APPENDs and
\* FILE_SEAL, and their number is the reported total, ceil(S/C) + 3; for an
\* empty file the total is 3.
C20_StagedSequence ==
    result = Returned("prepare", "Ok") =>
        LET S == prep.file_size
            C == prep.chunk_size
            total == TotalTxs(S, C)
        IN /\ total = CeilDiv(S, C) + 3
           /\ S = 0 => total = 3
           /\ get_txs(uuid).ok
           /\ Len(Rows(uuid)) = total
           /\ \A i \in 1..Len(Rows(uuid)) : Rows(uuid)[i].tx_id \in DOMAIN tx_bytes
           /\ \A i \in 1..Len(Rows(uuid)) :
                  RowOps[i] = IF i = 1 THEN "ACCOUNT_DEPOSIT"
                              ELSE IF i = 2 THEN "FILE_CREATE"
                              ELSE IF i = Len(Rows(uuid)) THEN "FILE_SEAL"
                              ELSE "FILE_APPEND"

\* C21: during prepare_transactions a progress report is made after each add_tx
\* that returned Ok and after no other: the reported processed values are
\* 1, 2, ... in that order, as many as add_tx calls have succeeded, and when
\* prepare_transactions has returned Ok they end with the total.
C21_ReportPerAddTx ==
    /\ prep.reports = [i \in 1..Len(prep.reports) |-> i]
    /\ Len(prep.reports) = prep.succeeded
    /\ result = Returned("prepare", "Ok") =>
           Len(prep.reports) = TotalTxs(prep.file_size, prep.chunk_size)

\* the transactions prepare_transactions has built
Built == 1..(prep.next_sig - 1)

\* C35: when prepare_transactions has returned Ok, every transaction it built
\* is stored: no add_tx call failed, the file has exactly total rows, one for
\* each transaction built, with its bytes, and every dependency of a row is a
\* transaction that is staged.
C35_PrepareStoresAll ==
    result = Returned("prepare", "Ok") =>
        /\ prep.succeeded = Cardinality(Built)
        /\ get_txs(uuid).ok
        /\ file_txs[uuid] = Built
        /\ Len(Rows(uuid)) = TotalTxs(prep.file_size, prep.chunk_size)
        /\ \A t \in Built :
               /\ get_tx_bytes(t).ok
               /\ \A i \in 1..Len(Dependencies(t)) : Dependencies(t)[i] \in file_txs[uuid]

\* The same holds of the calls in which no add_tx failed and every read
\* filled the buffer.
PrepareStoresAllWithoutFaults ==
    /\ result = Returned("prepare", "Ok")
    /\ prep.succeeded = Cardinality(Built)
    /\ Built \subseteq DOMAIN tx_bytes
    /\ Len(prep.blocks) = CeilDiv(prep.file_size, prep.chunk_size)
    => C35_PrepareStoresAll

\* the blocks of the rows from the i-th on that are staged with their bytes as
\* FILE_APPEND, concatenated
RECURSIVE StagedBlocks(_)
StagedBlocks(i) ==
    IF i > Len(Rows(uuid)) THEN <<>>
    ELSE LET stored == get_tx_bytes(Rows(uuid)[i].tx_id)
         IN (IF stored.ok /\ stored.value.op = "FILE_APPEND" THEN stored.value.block
             ELSE <<>>) \o StagedBlocks(i + 1)

\* C36: when prepare_transactions has returned Ok, the blocks of the staged
\* FILE_APPEND transactions, concatenated in store order, are the content of
\* the file from its first to its last byte.
C36_BlocksAreTheFile ==
    result = Returned("prepare", "Ok") =>
        (IF get_txs(uuid).ok THEN StagedBlocks(1) ELSE <<>>) = Bytes(0, prep.file_size)

\* The same holds of the calls in which no add_tx and no read failed.
BlocksAreTheFileWithoutFaults ==
    /\ result = Returned("prepare", "Ok")
    /\ prep.succeeded = Cardinality(Built)
    /\ Built \subseteq DOMAIN tx_bytes
    /\ prep.offset = prep.file_size
    => C36_BlocksAreTheFile

---------------------------------------------------------------------------
(* Claims about the progress reports of wait_transactions (SpecProgress) *)

\* the number of the file's rows whose stored status is Committed
CommittedRows ==
    Cardinality({t \in file_txs[uuid] \cap DOMAIN tx_info : StatusOf(t) = "Committed"})

TotalRows == Cardinality(file_txs[uuid])

\* C32: in every iteration of the wait loop the driver reports (c, total),
\* where c is the number of the file's rows whose stored status is Committed
\* and total is the number of rows of the file.
C32_ReportEveryIteration ==
    [][WaitCheck => progress'.report = Some(<<CommittedRows', TotalRows'>>)]_vars

\* The reports that are made in an iteration are (c, total) with c the number
\* of rows stored as Committed.
ReportsCommittedRows ==
    [][WaitCheck /\ progress'.report # None =>
           progress'.report = Some(<<CommittedRows', TotalRows'>>)]_vars

\* C33: the progress values reported by wait_transactions start at
\* (0, total); the first component of a report is greater than that of the
\* report before it (which processed_txs holds) and never exceeds total, the
\* number of rows; and when the loop is left for the Ok return the last
\* report made was (total, total).
C33_ProgressIncreases ==
    [][/\ StartWait /\ pc' = "wait_poll" => progress'.report = Some(<<0, TotalRows>>)
       /\ WaitCheck /\ progress'.report # None =>
              progress'.report.some[1] > progress.processed_txs
       /\ progress'.report # None =>
              /\ progress'.report.some[1] = progress'.processed_txs
              /\ progress'.report.some[1] <= progress'.report.some[2]
              /\ progress'.report.some[2] = TotalRows'
       /\ pc' = "wait_flush" =>
              /\ progress'.processed_txs = TotalRows'
              /\ progress'.total_txs = TotalRows']_vars

\* the loop is left after an iteration that made no report: (total, total) was
\* reported in an earlier iteration, before every row was stored as Committed
C33_Witness ==
    /\ pc = "wait_flush"
    /\ TotalRows >= 3
    /\ progress.processed_txs = TotalRows
    /\ progress.report = None

---------------------------------------------------------------------------
(* Claims about the conversions and the builders (SpecLib) *)

\* C22: status names round-trip: the string a status is converted to parses
\* to that status again, and a string that is none of LOCAL, QUEUED, PENDING,
\* COMMITTED, UNKNOWN, INVALID_STATUS parses to InvalidStatus.
C22_StatusRoundTrip ==
    /\ lib_call.fn = "String::from" =>
           /\ lib_ret \in StatusNames
           /\ StatusFromString(lib_ret) = lib_call.args
    /\ lib_call.fn = "TransactionStatus::from" /\ lib_call.args \notin StatusNames =>
           lib_ret = "InvalidStatus"

\* InvalidStatus was converted to its string, which parses to InvalidStatus
C22_Witness ==
    /\ lib_call = [fn |-> "String::from", args |-> "InvalidStatus"]
    /\ lib_ret = "INVALID_STATUS"
    /\ StatusFromString(lib_ret) = "InvalidStatus"

\* C23: a transaction returned by TransactionBuilder::build passes validate():
\* its header signature verifies over the header bytes under the signer's
\* public key, which the header records, and the hex SHA-512 of its payload
\* bytes is the header's payload_sha512, whatever payload, dependencies, nonce
\* and batcher key were supplied.
C23_BuiltTransactionValid ==
    lib_call.fn = "TransactionBuilder::build" /\ lib_ret.ok =>
        LET tx == lib_ret.value
            header == ParseFromBytes(tx.header).value
            signer_public_key == Signer_public_key(lib_call.args.signer).value
        IN /\ TransactionExt_validate(tx) = Ok("unit")
           /\ header.signer_public_key = Hex(signer_public_key)
           /\ PublicKey_verify(signer_public_key, tx.header,
                               FromHex(tx.header_signature).value) = Ok(TRUE)
           /\ Hex(Sha512(tx.payload)) = header.payload_sha512
           /\ tx.payload = WriteToBytes(lib_call.args.builder.payload.some)

\* a transaction was built with dependencies, a nonce of the caller and a
\* batcher key that is no key
C23_Witness ==
    /\ lib_call.fn = "TransactionBuilder::build"
    /\ lib_ret.ok
    /\ lib_call.args.builder.dependencies = Some(<<"d1", "d2">>)
    /\ lib_call.args.builder.nonce = Some("n1")
    /\ lib_call.args.builder.batcher_public_key = Some(Garbage)
    /\ ParseFromBytes(lib_ret.value.header).value.dependencies = <<"d1", "d2">>

\* the cause validate() is to fail with after the tampering: the first of
\* header parse, signer key load, signature parse, signature verification and
\* payload hash that fails
FirstFailure(tampers) ==
    IF tampers.header = "garbage" THEN "header could not be parsed"
    ELSE IF tampers.header = "key_not_hex" THEN "signer public key could not be loaded"
    ELSE IF tampers.signature = "not_hex" THEN "error loading signature"
    ELSE IF tampers.header = "key_garbage" \/ tampers.signature = "garbage"
    THEN "error during signature verification"
    ELSE IF tampers.header = "nonce" \/ tampers.signature = "other_signer"
    THEN "signature is invalid"
    ELSE IF tampers.payload THEN "payload hash does not match header"
    ELSE "none"

\* C24: validate() checks header parse, signer key load, signature parse,
\* signature verification over the header bytes and the payload hash in this
\* order and returns the error of the first step that fails; a built
\* transaction whose payload alone was altered fails with the payload hash
\* mismatch.
C24_ValidateFirstFailure ==
    lib_call.fn = "Transaction::validate" =>
        /\ lib_ret = IF FirstFailure(lib_call.args.tampers) = "none" THEN Ok("unit")
                     ELSE TransactionValidationError(FirstFailure(lib_call.args.tampers))
        /\ lib_call.args.tampers = [header |-> "none", signature |-> "none",
                                    payload |-> TRUE] =>
               lib_ret = TransactionValidationError("payload hash does not match header")

\* a transaction with another signer's signature and an altered payload was
\* rejected for its signature
C24_Witness ==
    /\ lib_call.fn = "Transaction::validate"
    /\ lib_call.args.tampers = [header |-> "none", signature |-> "other_signer",
                                payload |-> TRUE]
    /\ lib_ret = TransactionValidationError("signature is invalid")

\* the fields the operation needs, as the contract lists them
NeededFields(operation) ==
    (IF operation \in {"FILE_CREATE", "FILE_APPEND", "FILE_SEAL", "FILE_DESTROY",
                       "TIMESTAMP_SET"} THEN {"uuid"} ELSE {})
    \cup (IF operation = "FILE_CREATE" THEN {"mode"} ELSE {})
    \cup (IF operation = "FILE_APPEND" THEN {"block"} ELSE {})
    \cup (IF operation \in {"ACCOUNT_DEPOSIT", "ACCOUNT_TRANSFER"}
          THEN {"address", "amount"} ELSE {})
    \cup (IF operation \in {"PERMISSION_SET", "PERMISSION_CLEAR"}
          THEN {"permission"} ELSE {})
    \cup (IF operation = "PERMISSION_SET" THEN {"permission_public_key"} ELSE {})

\* C25: PayloadBuilder::build fails with MissingField exactly when a field
\* the operation needs was not supplied, or, for TIMESTAMP_SET, none of the
\* three timestamps was; otherwise it returns a payload, and the block of a
\* FILE_APPEND payload has sha224 equal to the SHA-224 of its data.
C25_PayloadRequiredFields ==
    lib_call.fn = "PayloadBuilder::build" =>
        LET builder == lib_call.args
            operation == builder["operation"]
            lacks == \/ \E f \in NeededFields(operation) : builder[f] = None
                     \/ /\ operation = "TIMESTAMP_SET"
                        /\ \A f \in {"timestamp_create", "timestamp_append",
                                      "timestamp_seal"} : builder[f] = None
        IN /\ lib_ret.ok <=> ~lacks
           /\ ~lib_ret.ok => \E name \in PayloadFields \cup {"timestamp"} :
                                 lib_ret.err = MissingField(name)
           /\ lib_ret.ok => lib_ret.value["operation"] = operation
           /\ lib_ret.ok /\ operation = "FILE_APPEND" =>
                  lib_ret.value["block"].some.sha224 =
                      Sha224(lib_ret.value["block"].some.data)

\* a TIMESTAMP_SET payload was built with timestamp_seal as its only timestamp
C25_Witness ==
    /\ lib_call.fn = "PayloadBuilder::build"
    /\ lib_call.args["operation"] = "TIMESTAMP_SET"
    /\ lib_call.args["timestamp_create"] = None
    /\ lib_call.args["timestamp_append"] = None
    /\ lib_ret.ok
    /\ lib_ret.value["timestamp_seal"] # None

\* the batch BatchBuilder::build returned is as the contract says: its header
\* records the signer's public key and lists the header signatures of the
\* transactions in the order of the transactions attached, which are the
\* ones supplied, and the batch is signed by the signer over the header bytes
BatchAsSupplied ==
    lib_call.fn = "BatchBuilder::build" /\ lib_ret.ok =>
        LET batch == lib_ret.value
            header == ParseFromBytes(batch.header).value
            supplied == lib_call.args.builder.transactions.some
            signer_public_key == Signer_public_key(lib_call.args.signer).value
        IN /\ batch.transactions = supplied
           /\ Len(header.transaction_ids) = Len(batch.transactions)
           /\ \A i \in 1..Len(batch.transactions) :
                  header.transaction_ids[i] = batch.transactions[i].header_signature
           /\ header.signer_public_key = Hex(signer_public_key)
           /\ PublicKey_verify(signer_public_key, batch.header,
                               FromHex(batch.header_signature).value) = Ok(TRUE)

\* C26 as stated: the batch is as supplied, and build fails with MissingField
\* when no transaction list was supplied, while an empty list is accepted.
C26_BatchBuild ==
    /\ BatchAsSupplied
    /\ lib_call.fn = "BatchBuilder::build" /\ lib_call.args.builder.transactions = None =>
           lib_ret = Err(MissingField("transactions"))
    /\ (/\ lib_call.fn = "BatchBuilder::build"
        /\ lib_call.args.builder.transactions = Some(<<>>)
        /\ lib_call.args.signer \in ValidKeys) => lib_ret.ok

\* C26, amended: the batch is as supplied; build fails with a SigningError
\* when the signer cannot give its public key, whether or not a list was
\* supplied, and otherwise with MissingField when no transaction list was
\* supplied, while an empty list is accepted.
C26_BatchBuildSignerFirst ==
    /\ BatchAsSupplied
    /\ lib_call.fn = "BatchBuilder::build" =>
           IF ~Signer_public_key(lib_call.args.signer).ok
           THEN lib_ret = Err(SigningError)
           ELSE IF lib_call.args.builder.transactions = None
           THEN lib_ret = Err(MissingField("transactions"))
           ELSE lib_ret.ok

\* a batch of two different transactions was built
C26_Witness ==
    /\ lib_call.fn = "BatchBuilder::build"
    /\ lib_ret.ok
    /\ Len(lib_ret.value.transactions) = 2
    /\ lib_ret.value.transactions[1] # lib_ret.value.transactions[2]
    /\ ParseFromBytes(lib_ret.value.header).value.transaction_ids[2] =
           lib_ret.value.transactions[2].header_signature

---------------------------------------------------------------------------
(* Claims about the lock discipline (SpecTasks) *)

\* C28: no network call is made while the store lock is held: a task sends
\* an HTTP request (the submit POST, the status poll) only in a state where
\* it has released the guard it took for the store call before, and it does
\* not own the guard while it waits for the response.
C28_NoLockDuringHttp ==
    [][\A t \in TaskIds :
          /\ tasks[t].at # "http" /\ tasks'[t].at = "http" => mutex # t
          /\ tasks'[t].at = "http" => mutex' # t]_vars

\* a task waits for the response to a submit POST it sent after a store call,
\* while another task owns the guard for its add_tx
C28_Witness ==
    /\ tasks["a"] = [at |-> "http", call |-> "submit"]
    /\ tasks["b"] = [at |-> "locked", call |-> "add_tx"]
    /\ mutex = "b"

\* C29: the driver never holds the store lock across a suspension point: a
\* task that is suspended at the await of a store call, of an HTTP round-trip
\* or of the sleep of the wait loop does not own the guard.
C29_NoLockAcrossAwait ==
    \A t \in TaskIds : tasks[t].at \in {"awaiting", "http", "sleeping"} => mutex # t

---------------------------------------------------------------------------
(* Claims about concurrent add_tx calls (SpecAddTx) *)

\* the order values of the rows of a file in the IndexedDB backend
IdbOrders(f) == {idb_tx_info[t].order : t \in IdbFileTxs(f)}

\* C30: concurrent add_tx calls do not collide: under every interleaving of
\* add_tx calls of several tasks with distinct transactions, a call that has
\* read next_order writes its row while next_order is still what it read, so
\* in both backends no two rows of a file have the same order, no order is
\* skipped, and next_order is the number of rows.
C30_ConcurrentAddTx ==
    /\ \A t \in TaskIds :
           tasks[t].at = "read" =>
               /\ tasks[t].next_order = read_next_order(tasks[t].file_id)
               /\ tasks[t].idb_next_order = idb_read_next_order(tasks[t].file_id)
    /\ \A f \in FileIds :
           /\ Cardinality(Orders(f)) = Cardinality(file_txs[f])
           /\ Orders(f) = 0..(read_next_order(f) - 1)
           /\ Cardinality(IdbOrders(f)) = Cardinality(IdbFileTxs(f))
           /\ IdbOrders(f) = 0..(idb_read_next_order(f) - 1)

\* a task has read next_order of a file that has a row while the other task,
\* which called add_tx for the same file, waits for its write transaction
C30_Witness ==
    /\ tasks["a"].at = "read"
    /\ tasks["b"].at = "waiting"
    /\ tasks["a"].file_id = tasks["b"].file_id
    /\ tasks["a"].next_order = 1
    /\ writer = "a"

\* C38: two uploads that share the store of one client and run as tasks of
\* one thread never deadlock: a task that calls lock() on the store's mutex
\* gets the guard, at once or after the task that owns it has run on to its
\* drop(store); no task is left in a lock() call that does not return.
C38_NoDeadlock ==
    \A t \in TaskIds : tasks[t].at # "stuck"

\* A lock() call does not return only when the guard is owned by a task that
\* is suspended in its store call.
StuckOnlyBehindSuspendedCall ==
    [][\A t \in TaskIds :
          tasks[t].at # "stuck" /\ tasks'[t].at = "stuck" =>
              \E u \in TaskIds \ {t} : tasks[u].at = "awaiting" /\ mutex = u]_vars

---------------------------------------------------------------------------
(* Claims about resumption (SpecResume) *)

\* C12: after a phase call was cut off at a suspension point, the
\* send_transactions and wait_transactions calls entered on the file do not
\* panic.
C12_ResumeRuns == stopped # "none" => pc # "panicked"

=============================================================================
